---- MODULE Spec2Model ----
(***************************************************************************)
(* Gas-pipeline digital twin (src/gas_simulator): the PLC scan cycle of    *)
(* base_plc.py, the controller kinds, the PLC manager (fleet) and the      *)
(* SCADA aggregator, as one state machine.                                 *)
(*                                                                         *)
(* Conventions of the model                                                *)
(*  - Time is an integer count of tenths of a second (scan_time 0.1 s is   *)
(*    1, the 60 s start delay is 600).  One call of execute_scan reads the *)
(*    clock once: every time.time() inside one scan returns the same       *)
(*    value.  The clock never goes backwards.                              *)
(*  - A Python dict is a function whose DOMAIN is the set of keys present. *)
(*    A sensor_data key f'pressure_{node}' is the pair <<"pressure",node>>. *)
(*  - sensor_data is [vals, bad]: vals is the dict, bad the set of keys    *)
(*    whose value is not of the type the controller expects (None, a       *)
(*    string): using such a value in a comparison or in arithmetic raises. *)
(*    A PLCInput keeps that in its field bad.  Where a controller draws a  *)
(*    random default, the field draw is the number drawn.                  *)
(*  - PLCInput/PLCOutput/PLCAlarm timestamps and alarm messages are data   *)
(*    no control decision reads; they are left out.                        *)
(***************************************************************************)
EXTENDS Integers, Sequences, FiniteSets, TLC

VARIABLES now, network, plcs, ret, scada, tick, hist, sim, sensors

vars == <<now, network, plcs, ret, scada, tick, hist, sim, sensors>>

(***************************************************************************)
(* Bounds of the exploration (not program constants).                      *)
(***************************************************************************)
\* the clock is explored up to MaxTime tenths of a second
MaxTime == 1001
\* execute_scan is called at instants within one scan period of a multiple
\* of TimeGrid tenths of a second
TimeGrid == 200
\* scans that would make an alarm log longer than this are not explored
MaxAlarms == 4
\* the clock bound of the specifications that involve no long timer
MaxTimeShort == 4
\* the same for the alarm log of the compressor under SpecComp, whose scans
\* are also not explored beyond MaxRunScans scans with the compressor running
MaxCompAlarms == 2
MaxRunScans == 4
\* the topologies fleet initialization is explored over have up to MaxNodes
\* nodes
MaxNodes == 8
\* the alarm lists the status classification is explored over have up to
\* MaxScadaAlarms alarms
MaxScadaAlarms == 4
\* iterations of simulation_loop explored, and the clock bound of the
\* exploration of the fleet
MaxSteps == 3
MaxTimeFleet == 2
\* alarm log length explored per controller of the fleet
MaxFleetAlarms == 2

\* alarm log length explored under SpecAlarms
MaxLogAlarms == 3

\* start and stop requests explored
MaxApiCalls == 2

\* passes of the loop and commands explored under SpecRace
MaxRacePasses == 2
MaxRaceCommands == 1

\* alarms in the controller's log under SpecInterlock
MaxInterlockAlarms == 2

\* calls of update_all_sensors explored under SpecSensors
MaxSensorUpdates == 2

\* iterations of the loop explored under SpecPlant
MaxPlantSteps == 25

\* iterations of the loop explored under SpecPhysics
MaxPhysicsSteps == 3

\* alarm log length explored under SpecSafety
MaxSafetyAlarms == 2

\* iterations of simulation_loop and alarm log length per controller explored
\* under SpecStatus
MaxStatusSteps == 4
MaxStatusAlarms == 3

(***************************************************************************)
(* dict helpers                                                            *)
(***************************************************************************)
EmptyDict == <<>>

Put(d, k, v) == (k :> v) @@ d

Get(d, k, default) == IF k \in DOMAIN d THEN d[k] ELSE default

\* a local variable: v is evaluated once and F applied to its value
Bind(v, F(_)) == CHOOSE y \in {F(x) : x \in {v}} : TRUE

(***************************************************************************)
(* base_plc.py                                                             *)
(***************************************************************************)
\* BasePLC.scan_time = 0.1 s
ScanTime == 1

PLCAlarm(alarm_id, severity) ==
    [alarm_id |-> alarm_id, severity |-> severity, acknowledged |-> FALSE]

\* BasePLC.__init__ at clock value t
BasePLC(plc_id, node_id, plc_type, t) ==
    [plc_id |-> plc_id, node_id |-> node_id, plc_type |-> plc_type,
     inputs |-> EmptyDict, outputs |-> EmptyDict, memory |-> EmptyDict,
     timers |-> EmptyDict, counters |-> EmptyDict, alarms |-> <<>>,
     is_active |-> TRUE, scan_time |-> ScanTime, last_scan |-> t]

\* sensor_data.get(key, default): the value, and whether it is ill-typed
SensorGet(sd, key, default) ==
    [value |-> Get(sd.vals, key, default), bad |-> key \in sd.bad]

update_input(plc, address, r) ==
    [plc EXCEPT !.inputs =
        Put(@, address, [value |-> r.value, quality |-> "GOOD", bad |-> r.bad])]

set_output(plc, address, value) ==
    [plc EXCEPT !.outputs = Put(@, address, value)]

get_input(plc, address, default) ==
    IF address \in DOMAIN plc.inputs THEN plc.inputs[address].value ELSE default

\* whether using the input at address as a number (or in a format spec) raises
input_bad(plc, address) ==
    address \in DOMAIN plc.inputs /\ plc.inputs[address].bad

get_output(plc, address, default) == Get(plc.outputs, address, default)

add_alarm(plc, alarm_id, severity) ==
    [plc EXCEPT !.alarms = Append(@, PLCAlarm(alarm_id, severity))]

\* BasePLC.acknowledge_alarm: every alarm with that alarm_id is acknowledged
acknowledge_alarm(plc, alarm_id) ==
    [plc EXCEPT !.alarms =
        [k \in DOMAIN @ |->
            IF @[k].alarm_id = alarm_id
            THEN [@[k] EXCEPT !.acknowledged = TRUE] ELSE @[k]]]

IsUnacknowledged(alarm) == ~alarm.acknowledged

\* (a variant that empties the log)
clear_all_alarms(plc) == [plc EXCEPT !.alarms = <<>>]

\* BasePLC.clear_acknowledged_alarms
clear_acknowledged_alarms(plc) ==
    [plc EXCEPT !.alarms = SelectSeq(@, IsUnacknowledged)]

\* (a variant that forgets the scan period)
should_scan_always(plc, t) == (t - plc.last_scan) >= 0

should_scan(plc, t) == (t - plc.last_scan) >= plc.scan_time

\* BasePLC.update_timer at clock value t: [plc, done]
update_timer(plc, timer_name, preset_time, t) ==
    LET p1 == IF timer_name \notin DOMAIN plc.timers
              THEN [plc EXCEPT !.timers = Put(@, timer_name,
                       [start_time |-> t, preset |-> preset_time, done |-> FALSE])]
              ELSE plc
        timer == p1.timers[timer_name]
        elapsed == t - timer.start_time
        done == elapsed >= timer.preset
    IN [plc |-> [p1 EXCEPT !.timers[timer_name].done = done], done |-> done]

reset_timer(plc, timer_name, t) ==
    IF timer_name \in DOMAIN plc.timers
    THEN [plc EXCEPT !.timers[timer_name].start_time = t,
                     !.timers[timer_name].done = FALSE]
    ELSE plc

\* a hook that returned normally / that raised, leaving the controller as p
Returned(p) == [plc |-> p, raised |-> FALSE]
Raised(p) == [plc |-> p, raised |-> TRUE]

(***************************************************************************)
(* emergency_shutdown_plc.py                                               *)
(***************************************************************************)
ESD_HighPressureTrip == 90

EmergencyShutdownPLC(plc_id, node_id, t) ==
    BasePLC(plc_id, node_id, "EMERGENCY_SHUTDOWN", t) @@ [esd_active |-> FALSE]

ESD_update_inputs(plc, sd) ==
    LET n == plc.node_id
        p1 == update_input(plc, "EMERGENCY_BUTTON",
                           SensorGet(sd, <<"emergency_button", n>>, FALSE))
        pr == SensorGet(sd, <<"pressure", n>>, 50)
    IN IF pr.bad THEN Raised(p1)   \* None > 90.0 raises TypeError
       ELSE
        LET p2 == update_input(p1, "HIGH_PRESSURE_TRIP",
                      [value |-> pr.value > ESD_HighPressureTrip, bad |-> FALSE])
            p3 == update_input(p2, "FIRE_DETECTED",
                      SensorGet(sd, <<"fire_detector", n>>, FALSE))
            p4 == update_input(p3, "GAS_LEAK",
                      SensorGet(sd, <<"gas_leak", n>>, FALSE))
        IN Returned(p4)

\* execute_logic, lines 29-42: the trigger test and the latch
ESD_should_shutdown(plc) ==
    \/ get_input(plc, "EMERGENCY_BUTTON", FALSE)
    \/ get_input(plc, "HIGH_PRESSURE_TRIP", FALSE)
    \/ get_input(plc, "FIRE_DETECTED", FALSE)
    \/ get_input(plc, "GAS_LEAK", FALSE)

\* (a variant whose esd_active follows the triggers instead of latching)
ESD_trigger_unlatched(plc) ==
    IF ESD_should_shutdown(plc) /\ ~plc.esd_active
    THEN add_alarm([plc EXCEPT !.esd_active = TRUE],
                   "EMERGENCY_SHUTDOWN", "CRITICAL")
    ELSE [plc EXCEPT !.esd_active = ESD_should_shutdown(plc)]

\* (a variant that raises the alarm in every scan that sees a trigger)
ESD_trigger_realarm(plc) ==
    IF ESD_should_shutdown(plc)
    THEN add_alarm([plc EXCEPT !.esd_active = TRUE],
                   "EMERGENCY_SHUTDOWN", "CRITICAL")
    ELSE plc

ESD_trigger(plc) ==
    IF ESD_should_shutdown(plc) /\ ~plc.esd_active
    THEN add_alarm([plc EXCEPT !.esd_active = TRUE],
                   "EMERGENCY_SHUTDOWN", "CRITICAL")
    ELSE plc

\* execute_logic, lines 44-57: the shutdown outputs
ESD_outputs(plc) ==
    LET fire_detected == get_input(plc, "FIRE_DETECTED", FALSE)
        p2 == IF plc.esd_active
              THEN LET q1 == set_output(plc, "ESD_VALVE_1", FALSE)
                       q2 == set_output(q1, "ESD_VALVE_2", FALSE)
                       q3 == set_output(q2, "MAIN_SUPPLY_VALVE", FALSE)
                       q4 == set_output(q3, "COMPRESSOR_STOP", TRUE)
                   IN IF ~fire_detected THEN set_output(q4, "VENT_VALVE", TRUE)
                      ELSE q4
              ELSE plc
    IN set_output(p2, "ESD_ACTIVE", p2.esd_active)

ESD_execute_logic(plc) ==
    Bind(ESD_trigger(plc), LAMBDA p : Returned(ESD_outputs(p)))

(***************************************************************************)
(* compressor_management_plc.py                                            *)
(* Pressures in bar, temperatures in degrees C, vibration in tenths of a   *)
(* mm/s (the 5.0 mm/s limit is 50, the 0.5 default is 5).  run_hours       *)
(* counts scan periods (scan_time / 3600 hours each).  COMPRESSION_RATIO   *)
(* is kept as the pair <<numerator, denominator>>.                         *)
(***************************************************************************)
\* the 60.0 s preset of the START_DELAY timer, in tenths of a second
COMP_StartDelay == 600

CompressorManagementPLC(plc_id, node_id, t) ==
    BasePLC(plc_id, node_id, "COMPRESSOR_MANAGEMENT", t) @@
    [start_pressure |-> 35, stop_pressure |-> 55,
     max_suction_pressure |-> 60, min_suction_pressure |-> 10,
     max_discharge_pressure |-> 85,
     compressor_running |-> FALSE, run_hours |-> 0,
     start_attempts |-> 0, max_start_attempts |-> 3]

COMP_update_inputs(plc, sd) ==
    LET n == plc.node_id
        p1 == update_input(plc, "SUCTION_PRESSURE",
                           SensorGet(sd, <<"suction_pressure", n>>, 40))
        p2 == update_input(p1, "DISCHARGE_PRESSURE",
                           SensorGet(sd, <<"discharge_pressure", n>>, 50))
        p3 == update_input(p2, "COMPRESSOR_SPEED",
                           SensorGet(sd, <<"compressor_speed", n>>, 0))
        p4 == update_input(p3, "VIBRATION",
                           SensorGet(sd, <<"vibration", n>>, 5))
        p5 == update_input(p4, "OIL_TEMPERATURE",
                           SensorGet(sd, <<"oil_temperature", n>>, 80))
        p6 == update_input(p5, "GAS_TEMPERATURE",
                           SensorGet(sd, <<"gas_temperature", n>>, 35))
        p7 == update_input(p6, "MANUAL_START",
                           SensorGet(sd, <<"manual_start", n>>, FALSE))
        p8 == update_input(p7, "MANUAL_STOP",
                           SensorGet(sd, <<"manual_stop", n>>, FALSE))
    IN Returned(p8)

\* execute_logic, lines 70-91: the value of safety_ok
COMP_safety_ok(plc) ==
    LET suction_pressure == get_input(plc, "SUCTION_PRESSURE", 40)
        discharge_pressure == get_input(plc, "DISCHARGE_PRESSURE", 50)
        vibration == get_input(plc, "VIBRATION", 5)
        oil_temp == get_input(plc, "OIL_TEMPERATURE", 80)
    IN /\ ~(suction_pressure > plc.max_suction_pressure)
       /\ ~(suction_pressure < plc.min_suction_pressure)
       /\ ~(discharge_pressure > plc.max_discharge_pressure)
       /\ ~(vibration > 50)
       /\ ~(oil_temp > 120)

\* execute_logic, lines 70-91: the interlock alarms, in order; a comparison
\* with an ill-typed input raises with the alarms added before it kept
COMP_interlocks(plc) ==
    LET suction_pressure == get_input(plc, "SUCTION_PRESSURE", 40)
        discharge_pressure == get_input(plc, "DISCHARGE_PRESSURE", 50)
        vibration == get_input(plc, "VIBRATION", 5)
        oil_temp == get_input(plc, "OIL_TEMPERATURE", 80)
    IN IF input_bad(plc, "SUCTION_PRESSURE") THEN Raised(plc) ELSE
       LET p1 == IF suction_pressure > plc.max_suction_pressure
                 THEN add_alarm(plc, "HIGH_SUCTION_PRESSURE", "HIGH") ELSE plc
           p2 == IF suction_pressure < plc.min_suction_pressure
                 THEN add_alarm(p1, "LOW_SUCTION_PRESSURE", "HIGH") ELSE p1
       IN IF input_bad(plc, "DISCHARGE_PRESSURE") THEN Raised(p2) ELSE
       LET p3 == IF discharge_pressure > plc.max_discharge_pressure
                 THEN add_alarm(p2, "HIGH_DISCHARGE_PRESSURE", "CRITICAL") ELSE p2
       IN IF input_bad(plc, "VIBRATION") THEN Raised(p3) ELSE
       LET p4 == IF vibration > 50
                 THEN add_alarm(p3, "HIGH_VIBRATION", "HIGH") ELSE p3
       IN IF input_bad(plc, "OIL_TEMPERATURE") THEN Raised(p4) ELSE
       LET p5 == IF oil_temp > 120
                 THEN add_alarm(p4, "HIGH_OIL_TEMP", "HIGH") ELSE p4
       IN Returned(p5)

\* (a variant with a single threshold instead of the band)
COMP_should_run_threshold(plc, safety_ok) ==
    LET suction_pressure == get_input(plc, "SUCTION_PRESSURE", 40)
        manual_start == get_input(plc, "MANUAL_START", FALSE)
        manual_stop == get_input(plc, "MANUAL_STOP", FALSE)
    IN IF manual_stop THEN FALSE
       ELSE IF manual_start /\ safety_ok THEN TRUE
       ELSE safety_ok /\ suction_pressure <= plc.start_pressure

\* execute_logic, lines 93-107: should_run
COMP_should_run(plc, safety_ok) ==
    LET suction_pressure == get_input(plc, "SUCTION_PRESSURE", 40)
        manual_start == get_input(plc, "MANUAL_START", FALSE)
        manual_stop == get_input(plc, "MANUAL_STOP", FALSE)
    IN IF manual_stop THEN FALSE
       ELSE IF manual_start /\ safety_ok THEN TRUE
       ELSE IF safety_ok THEN
            IF ~plc.compressor_running /\ suction_pressure <= plc.start_pressure
            THEN TRUE
            ELSE IF plc.compressor_running /\ suction_pressure >= plc.stop_pressure
            THEN FALSE
            ELSE plc.compressor_running
       ELSE FALSE

\* (a variant with no limit on the start attempts)
COMP_may_start_unlimited(plc) == plc.start_attempts >= 0

\* execute_logic, line 111: the anti-cycling test
COMP_may_start(plc) == plc.start_attempts < plc.max_start_attempts

\* execute_logic, lines 109-125: start or stop, at clock value t
COMP_start_stop(plc, should_run, safety_ok, t) ==
    IF should_run /\ ~plc.compressor_running /\ safety_ok
    THEN IF COMP_may_start(plc)
         THEN LET q1 == set_output(plc, "COMPRESSOR_START", TRUE)
                  q2 == set_output(q1, "COMPRESSOR_RUN", TRUE)
                  q3 == [q2 EXCEPT !.compressor_running = TRUE,
                                   !.start_attempts = @ + 1]
              IN reset_timer(q3, "START_DELAY", t)
         ELSE add_alarm(plc, "MAX_START_ATTEMPTS", "HIGH")
    ELSE IF ~should_run /\ plc.compressor_running
    THEN LET q1 == set_output(plc, "COMPRESSOR_START", FALSE)
             q2 == set_output(q1, "COMPRESSOR_RUN", FALSE)
         IN [q2 EXCEPT !.compressor_running = FALSE]
    ELSE plc

\* execute_logic, lines 127-145: start-delay timer, run hours, outputs, memory
COMP_finish(plc, safety_ok, t) ==
    LET suction_pressure == get_input(plc, "SUCTION_PRESSURE", 40)
        discharge_pressure == get_input(plc, "DISCHARGE_PRESSURE", 50)
    IN Bind(update_timer(plc, "START_DELAY", COMP_StartDelay, t), LAMBDA tm :
       Bind(IF tm.done THEN [tm.plc EXCEPT !.start_attempts = 0] ELSE tm.plc,
            LAMBDA p1 :
       Bind(IF p1.compressor_running
            THEN [p1 EXCEPT !.run_hours = @ + 1] ELSE p1, LAMBDA p2 :
       LET p3 == set_output(p2, "COMPRESSOR_RUNNING", p2.compressor_running)
           p4 == set_output(p3, "SAFETY_OK", safety_ok)
           p5 == set_output(p4, "RUN_HOURS", p2.run_hours)
           p6 == set_output(p5, "COMPRESSION_RATIO",
                     <<discharge_pressure,
                       IF suction_pressure > 1 THEN suction_pressure ELSE 1>>)
       IN [p6 EXCEPT !.memory =
             Put(Put(Put(Put(@, "SUCTION_PRESSURE", suction_pressure),
                         "DISCHARGE_PRESSURE", discharge_pressure),
                     "COMPRESSOR_RUNNING", p2.compressor_running),
                 "RUN_HOURS", p2.run_hours)])))

COMP_execute_logic(plc, t) ==
    Bind(COMP_interlocks(plc), LAMBDA a :
    IF a.raised THEN a
    ELSE Bind(COMP_safety_ok(plc), LAMBDA safety_ok :
         Bind(COMP_should_run(plc, safety_ok), LAMBDA should_run :
         Bind(COMP_start_stop(a.plc, should_run, safety_ok, t), LAMBDA p :
         Returned(COMP_finish(p, safety_ok, t))))))

(***************************************************************************)
(* valve_control_plc.py                                                    *)
(* Positions in percent, torque in Nm, valve_travel_time in tenths of a    *)
(* second (30.0 s is 300; the 10 s margin is 100).                         *)
(***************************************************************************)
\* the margin added to valve_travel_time at line 105 (10 s)
VALVE_TravelMargin == 100

\* the high torque limit of line 62 (500.0 Nm)
VALVE_TorqueLimit == 500

ValveControlPLC(plc_id, node_id, t) ==
    BasePLC(plc_id, node_id, "VALVE_CONTROL", t) @@
    [valve_positions |-> EmptyDict, valve_travel_time |-> 300,
     position_tolerance |-> 2]

VALVE_update_inputs(plc, sd) ==
    LET n == plc.node_id
        valve_position == SensorGet(sd, <<"valve_position", n>>, 50)
        p1 == update_input(plc, "MAIN_VALVE_POSITION", valve_position)
        p2 == update_input(p1, "POSITION_FEEDBACK",
                  IF <<"position_feedback", n>> \in DOMAIN sd.vals
                  THEN SensorGet(sd, <<"position_feedback", n>>, 50)
                  ELSE valve_position)
        p3 == update_input(p2, "OPEN_COMMAND",
                           SensorGet(sd, <<"valve_open", n>>, FALSE))
        p4 == update_input(p3, "CLOSE_COMMAND",
                           SensorGet(sd, <<"valve_close", n>>, FALSE))
        p5 == update_input(p4, "POSITION_SETPOINT",
                           SensorGet(sd, <<"position_setpoint", n>>, 50))
        p6 == update_input(p5, "FULLY_OPEN_LS",
                           SensorGet(sd, <<"valve_fully_open", n>>, FALSE))
        p7 == update_input(p6, "FULLY_CLOSED_LS",
                           SensorGet(sd, <<"valve_fully_closed", n>>, FALSE))
        p8 == update_input(p7, "VALVE_TORQUE",
                           SensorGet(sd, <<"valve_torque", n>>, 0))
    IN Returned(p8)

VALVE_position_error(plc) ==
    get_input(plc, "POSITION_SETPOINT", 50) - get_input(plc, "POSITION_FEEDBACK", 50)

Abs(x) == IF x < 0 THEN 0 - x ELSE x

VALVE_position_in_tolerance(plc) ==
    Abs(VALVE_position_error(plc)) <= plc.position_tolerance

\* (a variant that writes VALVE_OPEN and VALVE_CLOSE only when driving them)
VALVE_drive_sticky(plc, open, close, moving) ==
    LET p1 == IF open THEN set_output(plc, "VALVE_OPEN", TRUE) ELSE plc
        p2 == IF close THEN set_output(p1, "VALVE_CLOSE", TRUE) ELSE p1
    IN set_output(p2, "VALVE_MOVING", moving)

\* the three motion outputs written together
VALVE_drive(plc, open, close, moving) ==
    set_output(set_output(set_output(plc, "VALVE_OPEN", open),
                          "VALVE_CLOSE", close), "VALVE_MOVING", moving)

\* execute_logic, lines 61-66: the torque check
VALVE_safety(plc) ==
    IF get_input(plc, "VALVE_TORQUE", 0) > VALVE_TorqueLimit
    THEN set_output(add_alarm(plc, "HIGH_TORQUE", "HIGH"),
                    "TORQUE_LIMIT_ACTIVE", TRUE)
    ELSE set_output(plc, "TORQUE_LIMIT_ACTIVE", FALSE)

\* execute_logic, lines 72-101: valve movement control
VALVE_motion(plc) ==
    LET position_error == VALVE_position_error(plc)
        open_command == get_input(plc, "OPEN_COMMAND", FALSE)
        close_command == get_input(plc, "CLOSE_COMMAND", FALSE)
        fully_open == get_input(plc, "FULLY_OPEN_LS", FALSE)
        fully_closed == get_input(plc, "FULLY_CLOSED_LS", FALSE)
    IN IF ~get_output(plc, "TORQUE_LIMIT_ACTIVE", FALSE)
       THEN IF open_command /\ ~fully_open
            THEN VALVE_drive(plc, TRUE, FALSE, TRUE)
            ELSE IF close_command /\ ~fully_closed
            THEN VALVE_drive(plc, FALSE, TRUE, TRUE)
            ELSE IF ~VALVE_position_in_tolerance(plc)
            THEN IF position_error > plc.position_tolerance
                 THEN VALVE_drive(plc, TRUE, FALSE, TRUE)
                 ELSE IF position_error < 0 - plc.position_tolerance
                 THEN VALVE_drive(plc, FALSE, TRUE, TRUE)
                 ELSE plc
            ELSE VALVE_drive(plc, FALSE, FALSE, FALSE)
       ELSE VALVE_drive(plc, FALSE, FALSE, FALSE)

\* (a variant whose watchdog raises the alarm but leaves the valve driven)
VALVE_watchdog_alarm_only(plc, t) ==
    IF get_output(plc, "VALVE_MOVING", FALSE)
    THEN Bind(update_timer(plc, "TRAVEL_TIMER",
                           plc.valve_travel_time + VALVE_TravelMargin, t),
              LAMBDA tm :
                 IF ~tm.done THEN tm.plc
                 ELSE add_alarm(tm.plc, "VALVE_TRAVEL_TIME", "MEDIUM"))
    ELSE reset_timer(plc, "TRAVEL_TIMER", t)

\* (a variant whose watchdog restarts the travel timer when it trips)
VALVE_watchdog_restart_on_trip(plc, t) ==
    IF get_output(plc, "VALVE_MOVING", FALSE)
    THEN Bind(update_timer(plc, "TRAVEL_TIMER",
                           plc.valve_travel_time + VALVE_TravelMargin, t),
              LAMBDA tm :
                 IF ~tm.done THEN tm.plc
                 ELSE reset_timer(
                          VALVE_drive(add_alarm(tm.plc, "VALVE_TRAVEL_TIME", "MEDIUM"),
                                      FALSE, FALSE, FALSE),
                          "TRAVEL_TIMER", t))
    ELSE reset_timer(plc, "TRAVEL_TIMER", t)

\* execute_logic, lines 103-115: travel time monitoring at clock value t
VALVE_watchdog(plc, t) ==
    IF get_output(plc, "VALVE_MOVING", FALSE)
    THEN Bind(update_timer(plc, "TRAVEL_TIMER",
                           plc.valve_travel_time + VALVE_TravelMargin, t),
              LAMBDA tm :
                 IF ~tm.done THEN tm.plc
                 ELSE VALVE_drive(add_alarm(tm.plc, "VALVE_TRAVEL_TIME", "MEDIUM"),
                                  FALSE, FALSE, FALSE))
    ELSE reset_timer(plc, "TRAVEL_TIMER", t)

\* execute_logic, lines 117-136: status outputs and memory
VALVE_status(plc) ==
    LET current_position == get_input(plc, "POSITION_FEEDBACK", 50)
        p1 == set_output(plc, "POSITION_IN_TOLERANCE",
                         VALVE_position_in_tolerance(plc))
        p2 == set_output(p1, "CURRENT_POSITION", current_position)
        valve_state ==
            IF get_input(plc, "FULLY_OPEN_LS", FALSE) THEN "FULLY_OPEN"
            ELSE IF get_input(plc, "FULLY_CLOSED_LS", FALSE) THEN "FULLY_CLOSED"
            ELSE IF get_output(p2, "VALVE_MOVING", FALSE) THEN "MOVING"
            ELSE "INTERMEDIATE"
        p3 == set_output(p2, "VALVE_STATE", valve_state)
    IN [p3 EXCEPT !.memory =
          Put(Put(Put(@, "CURRENT_POSITION", current_position),
                  "POSITION_ERROR", VALVE_position_error(plc)),
              "VALVE_STATE", valve_state)]

\* an ill-typed torque raises at line 62; an ill-typed setpoint or feedback
\* raises at line 69, after the torque check has written its output
VALVE_execute_logic(plc, t) ==
    IF input_bad(plc, "VALVE_TORQUE") THEN Raised(plc)
    ELSE Bind(VALVE_safety(plc), LAMBDA p1 :
         IF input_bad(plc, "POSITION_SETPOINT") \/ input_bad(plc, "POSITION_FEEDBACK")
         THEN Raised(p1)
         ELSE Bind(VALVE_motion(p1), LAMBDA p2 :
              Bind(VALVE_watchdog(p2, t), LAMBDA p3 :
              Returned(VALVE_status(p3)))))

(***************************************************************************)
(* safety_monitoring_plc.py                                                *)
(***************************************************************************)
SafetyMonitoringPLC(plc_id, node_id, t) ==
    BasePLC(plc_id, node_id, "SAFETY_MONITORING", t) @@
    [safety_zones |-> <<"NORMAL", "WARNING", "ALARM", "EMERGENCY">>,
     current_safety_zone |-> "NORMAL"]

SAFETY_update_inputs(plc, sd) ==
    LET n == plc.node_id
        p1 == update_input(plc, "PRESSURE_SENSOR",
                           SensorGet(sd, <<"pressure", n>>, 50))
        p2 == update_input(p1, "GAS_LEAK_DETECTOR",
                           SensorGet(sd, <<"gas_leak", n>>, FALSE))
        p3 == update_input(p2, "FIRE_DETECTOR",
                           SensorGet(sd, <<"fire_detector", n>>, FALSE))
        p4 == update_input(p3, "EMERGENCY_STOP",
                           SensorGet(sd, <<"emergency_stop", n>>, FALSE))
    IN Returned(p4)

\* the pressure is compared only when neither emergency stop, fire nor gas
\* leak decided the zone (Python's or short-circuits): an ill-typed pressure
\* raises at line 41 or 44 after the earlier tests
SAFETY_execute_logic(plc) ==
    LET pressure == get_input(plc, "PRESSURE_SENSOR", 50)
        gas_leak == get_input(plc, "GAS_LEAK_DETECTOR", FALSE)
        fire_detected == get_input(plc, "FIRE_DETECTOR", FALSE)
        emergency_stop == get_input(plc, "EMERGENCY_STOP", FALSE)
        Out(p) == set_output(set_output(p, "SAFETY_ZONE", p.current_safety_zone),
                      "SAFETY_OK", p.current_safety_zone \in {"NORMAL", "WARNING"})
    IN IF emergency_stop \/ fire_detected
       THEN Returned(Out(add_alarm([plc EXCEPT !.current_safety_zone = "EMERGENCY"],
                                   "EMERGENCY", "CRITICAL")))
       ELSE IF gas_leak
       THEN Returned(Out(add_alarm([plc EXCEPT !.current_safety_zone = "ALARM"],
                                   "ALARM_CONDITION", "HIGH")))
       ELSE IF input_bad(plc, "PRESSURE_SENSOR") THEN Raised(plc)
       ELSE IF pressure > 85
       THEN Returned(Out(add_alarm([plc EXCEPT !.current_safety_zone = "ALARM"],
                                   "ALARM_CONDITION", "HIGH")))
       ELSE IF pressure > 75 \/ pressure < 10
       THEN Returned(Out([plc EXCEPT !.current_safety_zone = "WARNING"]))
       ELSE Returned(Out([plc EXCEPT !.current_safety_zone = "NORMAL"]))

(***************************************************************************)
(* leak_detection_plc.py                                                   *)
(* sd.draw is what random.randint(0, 100) returns in this call (line 18    *)
(* evaluates it whether or not the key is present).                        *)
(***************************************************************************)
LeakDetectionPLC(plc_id, node_id, t) ==
    BasePLC(plc_id, node_id, "LEAK_DETECTION", t) @@ [leak_threshold |-> 1000]

LEAK_update_inputs(plc, sd) ==
    LET n == plc.node_id
        p1 == update_input(plc, "GAS_CONCENTRATION",
                           SensorGet(sd, <<"gas_concentration", n>>, sd.draw))
        p2 == update_input(p1, "ACOUSTIC_DETECTOR",
                           SensorGet(sd, <<"acoustic_leak", n>>, FALSE))
    IN Returned(p2)

LEAK_execute_logic(plc) ==
    LET gas_concentration == get_input(plc, "GAS_CONCENTRATION", 0)
        acoustic_signal == get_input(plc, "ACOUSTIC_DETECTOR", FALSE)
    IN IF input_bad(plc, "GAS_CONCENTRATION") THEN Raised(plc)
       ELSE LET leak_detected ==
                    gas_concentration > plc.leak_threshold \/ acoustic_signal
                p1 == IF leak_detected
                      THEN set_output(set_output(
                               add_alarm(plc, "GAS_LEAK", "CRITICAL"),
                               "ISOLATION_VALVE", FALSE), "VENTILATION_FAN", TRUE)
                      ELSE plc
            IN Returned(set_output(p1, "LEAK_DETECTED", leak_detected))

(***************************************************************************)
(* temperature_control_plc.py                                              *)
(***************************************************************************)
TemperatureControlPLC(plc_id, node_id, t) ==
    BasePLC(plc_id, node_id, "TEMPERATURE_CONTROL", t) @@
    [temp_setpoint |-> 20, temp_tolerance |-> 5]

TEMP_update_inputs(plc, sd) ==
    Returned(update_input(plc, "TEMPERATURE_SENSOR",
                          SensorGet(sd, <<"temperature", plc.node_id>>, 20)))

TEMP_execute_logic(plc) ==
    LET temperature == get_input(plc, "TEMPERATURE_SENSOR", 20)
        Fans(fan, heater) ==
            set_output(set_output(plc, "COOLING_FAN", fan), "HEATER", heater)
    IN IF input_bad(plc, "TEMPERATURE_SENSOR") THEN Raised(plc)
       ELSE LET p1 == IF temperature > plc.temp_setpoint + plc.temp_tolerance
                      THEN Fans(TRUE, FALSE)
                      ELSE IF temperature < plc.temp_setpoint - plc.temp_tolerance
                      THEN Fans(FALSE, TRUE)
                      ELSE Fans(FALSE, FALSE)
            IN Returned(set_output(p1, "TEMPERATURE_OK",
                   Abs(temperature - plc.temp_setpoint) <= plc.temp_tolerance))

(***************************************************************************)
(* flow_regulation_plc.py                                                  *)
(* Flows in kg/s, temperatures in degrees C.  The compensated flow         *)
(* current_flow * (temperature + 273.15) / 293.15 is kept multiplied by    *)
(* 29315 (FLOW_Scale), and so are the quantities compared with it; the     *)
(* totalizer counts tenths of a kg (current_flow * scan_time).             *)
(***************************************************************************)
FLOW_Scale == 29315

FlowRegulationPLC(plc_id, node_id, t) ==
    BasePLC(plc_id, node_id, "FLOW_REGULATION", t) @@
    [flow_setpoint |-> 100, flow_tolerance |-> 5, flow_high_limit |-> 200,
     flow_low_limit |-> 0, total_flow |-> 0, flow_rate_previous |-> 0]

FLOW_update_inputs(plc, sd) ==
    LET n == plc.node_id
        p1 == update_input(plc, "FLOW_METER", SensorGet(sd, <<"flow", n>>, 100))
        p2 == update_input(p1, "DIFFERENTIAL_PRESSURE",
                           SensorGet(sd, <<"differential_pressure", n>>, 10))
        p3 == update_input(p2, "FLOW_SETPOINT",
                           SensorGet(sd, <<"flow_setpoint", n>>, plc.flow_setpoint))
        p4 == update_input(p3, "TEMPERATURE",
                           SensorGet(sd, <<"temperature", n>>, 20))
    IN Returned(p4)

\* execute_logic, lines 52-61: flow rate monitoring (cf is the compensated
\* flow times FLOW_Scale)
FLOW_monitor(plc, cf, setpoint) ==
    IF cf > plc.flow_high_limit * FLOW_Scale
    THEN set_output(add_alarm(plc, "HIGH_FLOW", "MEDIUM"), "FLOW_LIMITER_VALVE", TRUE)
    ELSE IF cf < plc.flow_low_limit * FLOW_Scale /\ setpoint > 0
    THEN set_output(add_alarm(plc, "LOW_FLOW", "MEDIUM"), "FLOW_BOOSTER", TRUE)
    ELSE set_output(set_output(plc, "FLOW_LIMITER_VALVE", FALSE),
                    "FLOW_BOOSTER", FALSE)

\* execute_logic, lines 63-74: valve stepping (fe is the flow error times
\* FLOW_Scale)
FLOW_position(plc, fe) ==
    IF Abs(fe) > plc.flow_tolerance * FLOW_Scale
    THEN LET current_position == get_output(plc, "FLOW_CONTROL_VALVE", 50)
             up == IF current_position + 2 < 100 THEN current_position + 2 ELSE 100
             down == IF current_position - 2 > 0 THEN current_position - 2 ELSE 0
         IN set_output(plc, "FLOW_CONTROL_VALVE", IF fe > 0 THEN up ELSE down)
    ELSE plc

\* an ill-typed temperature raises at line 49, an ill-typed flow at line 50,
\* an ill-typed setpoint at line 56 when the low-flow test reads it and
\* otherwise at line 64, after the monitoring stage has acted
FLOW_execute_logic(plc) ==
    LET current_flow == get_input(plc, "FLOW_METER", 100)
        setpoint == get_input(plc, "FLOW_SETPOINT", plc.flow_setpoint)
        temperature == get_input(plc, "TEMPERATURE", 20)
    IN IF input_bad(plc, "TEMPERATURE") \/ input_bad(plc, "FLOW_METER")
       THEN Raised(plc)
       ELSE
       LET cf == current_flow * (temperature * 100 + 27315)
           fe == setpoint * FLOW_Scale - cf
       IN IF input_bad(plc, "FLOW_SETPOINT")
          THEN IF cf > plc.flow_high_limit * FLOW_Scale
               THEN Raised(set_output(add_alarm(plc, "HIGH_FLOW", "MEDIUM"),
                                      "FLOW_LIMITER_VALVE", TRUE))
               ELSE IF cf < plc.flow_low_limit * FLOW_Scale
               THEN Raised(plc)
               ELSE Raised(set_output(set_output(plc, "FLOW_LIMITER_VALVE", FALSE),
                                      "FLOW_BOOSTER", FALSE))
          ELSE
          Bind(FLOW_monitor(plc, cf, setpoint), LAMBDA p0 :
          Bind(FLOW_position(p0, fe), LAMBDA p1 :
          Bind([p1 EXCEPT
                  !.total_flow =
                     IF Abs(current_flow - plc.flow_rate_previous) < 100
                     THEN @ + current_flow ELSE @,
                  !.flow_rate_previous = current_flow], LAMBDA p2 :
          LET p3 == set_output(p2, "FLOW_IN_TOLERANCE",
                               Abs(fe) <= plc.flow_tolerance * FLOW_Scale)
              p4 == set_output(p3, "FLOW_TOTALIZER", p2.total_flow)
          IN Returned([p4 EXCEPT !.memory =
                 Put(Put(Put(@, "CURRENT_FLOW", cf), "FLOW_ERROR", fe),
                     "TOTAL_FLOW", p2.total_flow)]))))

(***************************************************************************)
(* pressure_control_plc.py (constructor)                                   *)
(* The PID state is kept in tenths: integral_error and last_error.         *)
(***************************************************************************)
PressureControlPLC(plc_id, node_id, t) ==
    BasePLC(plc_id, node_id, "PRESSURE_CONTROL", t) @@
    [pressure_setpoint |-> 50, pressure_tolerance |-> 2,
     pressure_high_limit |-> 80, pressure_low_limit |-> 5,
     integral_error |-> 0, last_error |-> 0]

PRES_update_inputs(plc, sd) ==
    LET n == plc.node_id
        pressure == SensorGet(sd, <<"pressure", n>>, 50)
        p1 == update_input(plc, "PRESSURE_SENSOR", pressure)
        p2 == update_input(p1, "PRESSURE_TRANSMITTER",
                  IF <<"pressure_transmitter", n>> \in DOMAIN sd.vals
                  THEN SensorGet(sd, <<"pressure_transmitter", n>>, 50)
                  ELSE pressure)
        p3 == update_input(p2, "MANUAL_SETPOINT",
                           SensorGet(sd, <<"manual_setpoint", n>>, plc.pressure_setpoint))
    IN Returned(p3)

\* execute_logic, lines 46-57: the safety checks
PRES_safety(plc) ==
    LET current_pressure == get_input(plc, "PRESSURE_SENSOR", 50)
    IN IF current_pressure > plc.pressure_high_limit
       THEN set_output(set_output(add_alarm(plc, "HIGH_PRESSURE", "HIGH"),
                                  "PRESSURE_RELIEF_VALVE", TRUE),
                       "EMERGENCY_VENT", TRUE)
       ELSE IF current_pressure < plc.pressure_low_limit
       THEN set_output(add_alarm(plc, "LOW_PRESSURE", "MEDIUM"), "BOOSTER_PUMP", TRUE)
       ELSE set_output(set_output(set_output(plc, "PRESSURE_RELIEF_VALVE", FALSE),
                                  "EMERGENCY_VENT", FALSE),
                       "BOOSTER_PUMP", FALSE)

\* execute_logic, lines 59-82: the PID regulation.  integral_error is in
\* tenths of a bar second (error * scan_time with scan_time in tenths of a
\* second); pid_output and the valve position are in hundredths, so that
\* kp = 1.0 is 100, ki = 0.1 on an integral in tenths is 1, and kd = 0.01 on
\* a derivative per tenth of a second is 10
PRES_regulate(plc) ==
    LET current_pressure == get_input(plc, "PRESSURE_SENSOR", 50)
        setpoint == get_input(plc, "MANUAL_SETPOINT", plc.pressure_setpoint)
        error == setpoint - current_pressure
        integral_error == plc.integral_error + error * plc.scan_time
        derivative_error == (error - plc.last_error) \div plc.scan_time
        pid_output == 100 * error + integral_error + 10 * derivative_error
        valve_position == IF 5000 + pid_output > 10000 THEN 10000
                          ELSE IF 5000 + pid_output < 0 THEN 0
                          ELSE 5000 + pid_output
        p1 == set_output(plc, "CONTROL_VALVE_POSITION", valve_position)
        p2 == set_output(p1, "PRESSURE_IN_TOLERANCE",
                         Abs(error) <= plc.pressure_tolerance)
    IN [p2 EXCEPT !.integral_error = integral_error,
                  !.last_error = error,
                  !.memory = Put(Put(Put(@, "CURRENT_PRESSURE", current_pressure),
                                     "PRESSURE_ERROR", error),
                                 "PID_OUTPUT", pid_output)]

\* an ill-typed pressure raises at line 47; an ill-typed setpoint raises at
\* line 60, after the safety checks have written their outputs
PRES_execute_logic(plc) ==
    IF input_bad(plc, "PRESSURE_SENSOR") THEN Raised(plc)
    ELSE Bind(PRES_safety(plc), LAMBDA p1 :
         IF input_bad(plc, "MANUAL_SETPOINT") THEN Raised(p1)
         ELSE Returned(PRES_regulate(p1)))

(***************************************************************************)
(* base_plc.py: the scan driver                                            *)
(***************************************************************************)
update_inputs(plc, sd) ==
    CASE plc.plc_type = "EMERGENCY_SHUTDOWN" -> ESD_update_inputs(plc, sd)
      [] plc.plc_type = "COMPRESSOR_MANAGEMENT" -> COMP_update_inputs(plc, sd)
      [] plc.plc_type = "VALVE_CONTROL" -> VALVE_update_inputs(plc, sd)
      [] plc.plc_type = "SAFETY_MONITORING" -> SAFETY_update_inputs(plc, sd)
      [] plc.plc_type = "LEAK_DETECTION" -> LEAK_update_inputs(plc, sd)
      [] plc.plc_type = "TEMPERATURE_CONTROL" -> TEMP_update_inputs(plc, sd)
      [] plc.plc_type = "FLOW_REGULATION" -> FLOW_update_inputs(plc, sd)
      [] plc.plc_type = "PRESSURE_CONTROL" -> PRES_update_inputs(plc, sd)

execute_logic(plc, t) ==
    CASE plc.plc_type = "EMERGENCY_SHUTDOWN" -> ESD_execute_logic(plc)
      [] plc.plc_type = "COMPRESSOR_MANAGEMENT" -> COMP_execute_logic(plc, t)
      [] plc.plc_type = "VALVE_CONTROL" -> VALVE_execute_logic(plc, t)
      [] plc.plc_type = "SAFETY_MONITORING" -> SAFETY_execute_logic(plc)
      [] plc.plc_type = "LEAK_DETECTION" -> LEAK_execute_logic(plc)
      [] plc.plc_type = "TEMPERATURE_CONTROL" -> TEMP_execute_logic(plc)
      [] plc.plc_type = "FLOW_REGULATION" -> FLOW_execute_logic(plc)
      [] plc.plc_type = "PRESSURE_CONTROL" -> PRES_execute_logic(plc)

\* the dict execute_scan returns on success
OutputValues(plc) == plc.outputs

\* the variant of ScanFault that logs no alarm
ScanFault_silent(plc) ==
    [plc |-> plc, outputs |-> EmptyDict, ran |-> TRUE, faulted |-> TRUE,
     escaped |-> FALSE]

\* the except branch of execute_scan: the alarm, and {} returned
ScanFault(plc) ==
    [plc |-> add_alarm(plc, "SCAN_ERROR", "HIGH"),
     outputs |-> EmptyDict, ran |-> TRUE, faulted |-> TRUE, escaped |-> FALSE]

\* (a variant whose skipped call still stamps last_scan)
execute_scan_restamp(plc, sd, t) ==
    [plc |-> [plc EXCEPT !.last_scan = t], outputs |-> EmptyDict, ran |-> FALSE,
     faulted |-> FALSE, escaped |-> FALSE]

\* BasePLC.execute_scan called at clock value t.  ran: the hooks were
\* entered; faulted: a hook raised; escaped: an exception reached the caller
execute_scan(plc, sd, t) ==
    IF ~plc.is_active \/ ~should_scan(plc, t)
    THEN [plc |-> plc, outputs |-> EmptyDict, ran |-> FALSE, faulted |-> FALSE,
          escaped |-> FALSE]
    ELSE Bind(update_inputs(plc, sd), LAMBDA u :
         IF u.raised THEN ScanFault(u.plc)
         ELSE Bind(execute_logic(u.plc, t), LAMBDA e :
              IF e.raised THEN ScanFault(e.plc)
              ELSE [plc |-> [e.plc EXCEPT !.last_scan = t],
                    outputs |-> OutputValues(e.plc),
                    ran |-> TRUE, faulted |-> FALSE, escaped |-> FALSE]))

(***************************************************************************)
(* The callers' side: when execute_scan is called, and with what           *)
(***************************************************************************)
GridTimes(t) ==
    {u \in t..MaxTime : (u % TimeGrid) \in {0, 1, TimeGrid - 1}}

\* the instants at which a call at clock value t may be followed by the next
\* call: the same instant, or one of the next two grid instants
CallTimes(t) ==
    {u \in GridTimes(t) : Cardinality({w \in GridTimes(t) : w < u}) <= 2}

\* the same for the specifications with no long timer: up to two scan periods
\* later
ShortCallTimes(t) == {u \in t..(t + 2 * ScanTime) : u <= MaxTimeShort}

PlcId(plc_type, node_id) == <<plc_type, node_id>>

NoRet == [call |-> "none", plc_id |-> PlcId("", ""), outputs |-> EmptyDict,
          ran |-> FALSE, faulted |-> FALSE, escaped |-> FALSE, at |-> 0,
          prev_last_scan |-> 0]

\* hist records, for the properties, when the compressor last went from
\* stopped to running and how many such starts followed one another with
\* less than the start delay between a start and the one before it
NoHist == [started |-> FALSE, last_start |-> 0, burst |-> 0]

ObserveStart(h, old, new, t) ==
    IF /\ old.plc_type = "COMPRESSOR_MANAGEMENT"
       /\ ~old.compressor_running /\ new.compressor_running
    THEN [started |-> TRUE, last_start |-> t,
          burst |-> IF h.started /\ t - h.last_start < COMP_StartDelay
                    THEN h.burst + 1 ELSE 1]
    ELSE h

\* one call plcs[i].execute_scan(sd) at clock value t; ret is what the
\* caller got back (with the instant of the call and the last_scan it found)
ScanCall(i, t, sd, cap) ==
    \E r \in {execute_scan(plcs[i], sd, t)} :
    /\ Len(r.plc.alarms) <= cap
    /\ plcs' = [plcs EXCEPT ![i] = r.plc]
    /\ ret' = [call |-> "execute_scan", plc_id |-> plcs[i].plc_id,
               outputs |-> r.outputs, ran |-> r.ran,
               faulted |-> r.faulted, escaped |-> r.escaped, at |-> t,
               prev_last_scan |-> plcs[i].last_scan]
    /\ now' = t
    /\ hist' = ObserveStart(hist, plcs[i], r.plc, t)
    /\ UNCHANGED <<network, scada, tick, sim, sensors>>

\* GasPipelineSimulator.__init__, lines 46-47: the running flag and the loop
\* thread (0 is None, else a position in loops).  loops are the threads
\* created so far running simulation_loop, api the threads serving requests,
\* each with the statement it is at; calls counts the requests begun
NoSim == [simulation_running |-> FALSE, simulation_thread |-> 0,
          loops |-> <<>>, api |-> <<>>, calls |-> 0]

\* SensorManager.__init__: self.sensors = {}
NoSensors == EmptyDict

NoNetwork == [nodes |-> <<>>, pipes |-> <<>>]
\* SCADASystem.__init__
NoScada == [system_status |-> "NORMAL", alarms |-> <<>>]
\* no pass of the fleet made yet: step_count counts the iterations of
\* simulation_loop, at is the instant of the last pass, plc_outputs what
\* execute_all_plcs returned, calls the controllers execute_scan was invoked
\* on, in order, and scada_data what SCADASystem.update returned
NoScadaData == [system_status |-> "NONE", alarm_count |-> 0]
NoTick == [step_count |-> 0, at |-> 0, plc_outputs |-> EmptyDict, calls |-> <<>>,
           updated |-> FALSE, scada_data |-> NoScadaData]

(***************************************************************************)
(* plc_manager.py                                                          *)
(* network.nodes and PLCManager.plcs are insertion-ordered dicts: here     *)
(* sequences of records, a node being [id, type] and a controller carrying *)
(* its key in plc_id.  f"PLC_{plc_type}_{node_id}" is PlcId.               *)
(***************************************************************************)
\* list(self.plc_types.keys())
plc_types_list ==
    <<"PRESSURE_CONTROL", "FLOW_REGULATION", "COMPRESSOR_MANAGEMENT",
      "VALVE_CONTROL", "SAFETY_MONITORING", "LEAK_DETECTION",
      "TEMPERATURE_CONTROL", "EMERGENCY_SHUTDOWN">>

\* plc_class(plc_id, node_id)
NewPLC(plc_type, node_id, t) ==
    LET plc_id == PlcId(plc_type, node_id) IN
    CASE plc_type = "PRESSURE_CONTROL" -> PressureControlPLC(plc_id, node_id, t)
      [] plc_type = "FLOW_REGULATION" -> FlowRegulationPLC(plc_id, node_id, t)
      [] plc_type = "COMPRESSOR_MANAGEMENT" ->
             CompressorManagementPLC(plc_id, node_id, t)
      [] plc_type = "VALVE_CONTROL" -> ValveControlPLC(plc_id, node_id, t)
      [] plc_type = "SAFETY_MONITORING" -> SafetyMonitoringPLC(plc_id, node_id, t)
      [] plc_type = "LEAK_DETECTION" -> LeakDetectionPLC(plc_id, node_id, t)
      [] plc_type = "TEMPERATURE_CONTROL" ->
             TemperatureControlPLC(plc_id, node_id, t)
      [] plc_type = "EMERGENCY_SHUTDOWN" ->
             EmergencyShutdownPLC(plc_id, node_id, t)

\* initialize_plcs, lines 47-62: the kind for the node at 0-based position i
\* of the first eight
role_plc_type(i, node_type) ==
    CASE node_type = "source" -> "PRESSURE_CONTROL"
      [] node_type = "compressor" -> "COMPRESSOR_MANAGEMENT"
      [] node_type = "sink" -> "FLOW_REGULATION"
      [] OTHER -> CASE i % 4 = 0 -> "VALVE_CONTROL"
                    [] i % 4 = 1 -> "SAFETY_MONITORING"
                    [] i % 4 = 2 -> "LEAK_DETECTION"
                    [] i % 4 = 3 -> "TEMPERATURE_CONTROL"
                    [] OTHER -> "EMERGENCY_SHUTDOWN"

Min(a, b) == IF a < b THEN a ELSE b

\* the variant of force_emergency_shutdown that leaves the assignments alone
force_emergency_shutdown_skipped(plc_assignments) == plc_assignments

\* initialize_plcs, lines 66-68
force_emergency_shutdown(plc_assignments) ==
    IF ~\E k \in DOMAIN plc_assignments :
           plc_assignments[k].plc_type = "EMERGENCY_SHUTDOWN"
    THEN [plc_assignments EXCEPT ![1].plc_type = "EMERGENCY_SHUTDOWN"]
    ELSE plc_assignments

\* initialize_plcs, lines 38-75: the list of (node_id, plc_type)
plc_assignments_of(nodes) ==
    IF Len(nodes) >= 8
    THEN force_emergency_shutdown(
             [k \in 1..8 |-> [node_id |-> nodes[k].id,
                              plc_type |-> role_plc_type(k - 1, nodes[k].type)]])
    ELSE [k \in 1..Len(nodes) |->
             [node_id |-> nodes[k].id,
              plc_type |-> plc_types_list[((k - 1) % Len(plc_types_list)) + 1]]]

\* self.plcs[plc_id] = plc: a new key goes last, a key already present keeps
\* its place
SetPlc(fleet, plc) ==
    IF \E k \in DOMAIN fleet : fleet[k].plc_id = plc.plc_id
    THEN [k \in DOMAIN fleet |->
             IF fleet[k].plc_id = plc.plc_id THEN plc ELSE fleet[k]]
    ELSE Append(fleet, plc)

RECURSIVE create_plcs(_, _, _, _)
\* initialize_plcs, lines 78-83, from the k-th assignment on
create_plcs(fleet, plc_assignments, k, t) ==
    IF k > Len(plc_assignments) THEN fleet
    ELSE Bind(NewPLC(plc_assignments[k].plc_type, plc_assignments[k].node_id, t),
              LAMBDA plc :
         Bind(SetPlc(fleet, plc), LAMBDA fleet1 :
         create_plcs(fleet1, plc_assignments, k + 1, t)))

\* PLCManager.initialize_plcs at clock value t
initialize_plcs(fleet, net, t) ==
    Bind(plc_assignments_of(net.nodes), LAMBDA plc_assignments :
         create_plcs(fleet, plc_assignments, 1, t))

\* the variant of fleet_scan_entry that records nothing for a faulted scan
fleet_scan_entry_skip_faulted(acc, plc, r) ==
    [plcs |-> Append(acc.plcs, r.plc),
     all_outputs |-> IF r.faulted THEN acc.all_outputs
                     ELSE Put(acc.all_outputs, plc.plc_id, r.outputs),
     calls |-> Append(acc.calls, plc.plc_id)]

\* execute_all_plcs, lines 92-97: the body of the loop for one controller,
\* r being what its execute_scan did
fleet_scan_entry(acc, plc, r) ==
    [plcs |-> Append(acc.plcs, r.plc),
     all_outputs |-> Put(acc.all_outputs, plc.plc_id,
                         IF r.escaped THEN EmptyDict ELSE r.outputs),
     calls |-> Append(acc.calls, plc.plc_id)]

RECURSIVE scan_from(_, _, _, _, _)
scan_from(k, fleet, sd, t, acc) ==
    IF k > Len(fleet) THEN acc
    ELSE Bind(execute_scan(fleet[k], sd, t), LAMBDA r :
         Bind(fleet_scan_entry(acc, fleet[k], r), LAMBDA acc1 :
         scan_from(k + 1, fleet, sd, t, acc1)))

\* PLCManager.execute_all_plcs: the controllers after the pass, the mapping
\* returned, and the order execute_scan was invoked in.  The pass is short
\* against the scan period: every scan of it reads the clock value t
execute_all_plcs(fleet, sd, t) ==
    scan_from(1, fleet, sd, t,
              [plcs |-> <<>>, all_outputs |-> EmptyDict, calls |-> <<>>])

\* send_command_to_plc, lines 105-106: plc.update_input(key, value) for every
\* item of command (a dict: its keys are distinct)
write_command(plc, command) ==
    [plc EXCEPT !.inputs =
        [a \in DOMAIN command \cup DOMAIN plc.inputs |->
            IF a \in DOMAIN command
            THEN [value |-> command[a], quality |-> "GOOD", bad |-> FALSE]
            ELSE plc.inputs[a]]]

\* the variant of send_command_to_plc that writes the command into the first
\* controller when plc_id is not a key of the fleet
send_command_to_plc_first(fleet, plc_id, command) ==
    IF \E k \in DOMAIN fleet : fleet[k].plc_id = plc_id
    THEN [plcs |-> [k \in DOMAIN fleet |->
                       IF fleet[k].plc_id = plc_id
                       THEN write_command(fleet[k], command) ELSE fleet[k]],
          result |-> [success |-> TRUE, message |-> "Command sent"]]
    ELSE [plcs |-> [k \in DOMAIN fleet |->
                       IF k = 1 THEN write_command(fleet[k], command)
                       ELSE fleet[k]],
          result |-> [success |-> FALSE, error |-> "not found"]]

\* PLCManager.send_command_to_plc: the controllers afterwards and the dict
\* returned
send_command_to_plc(fleet, plc_id, command) ==
    IF \E k \in DOMAIN fleet : fleet[k].plc_id = plc_id
    THEN [plcs |-> [k \in DOMAIN fleet |->
                       IF fleet[k].plc_id = plc_id
                       THEN write_command(fleet[k], command) ELSE fleet[k]],
          result |-> [success |-> TRUE, message |-> "Command sent"]]
    ELSE [plcs |-> fleet,
          result |-> [success |-> FALSE, error |-> "not found"]]

\* get_all_alarms, lines 131-141: the alarm dicts of one controller
alarm_dicts(plc) ==
    [k \in DOMAIN plc.alarms |->
        [plc_id |-> plc.plc_id, node_id |-> plc.node_id,
         alarm_id |-> plc.alarms[k].alarm_id,
         severity |-> plc.alarms[k].severity,
         acknowledged |-> plc.alarms[k].acknowledged]]

RECURSIVE alarms_from(_, _)
alarms_from(k, fleet) ==
    IF k > Len(fleet) THEN <<>>
    ELSE alarm_dicts(fleet[k]) \o alarms_from(k + 1, fleet)

\* (a variant that collects only the newest alarm of each controller)
RECURSIVE latest_alarms_from(_, _)
latest_alarms_from(k, fleet) ==
    IF k > Len(fleet) THEN <<>>
    ELSE (IF fleet[k].alarms = <<>> THEN <<>>
          ELSE <<alarm_dicts(fleet[k])[Len(fleet[k].alarms)]>>)
         \o latest_alarms_from(k + 1, fleet)

get_all_alarms_latest(fleet) == latest_alarms_from(1, fleet)

\* PLCManager.get_all_alarms
get_all_alarms(fleet) == alarms_from(1, fleet)

(***************************************************************************)
(* scada_system.py                                                         *)
(***************************************************************************)
CountSeverity(alarms, severity) ==
    Cardinality({k \in DOMAIN alarms : alarms[k].severity = severity})

\* the variant of evaluate_system_status that tests the HIGH alarms first
evaluate_system_status_high_first(sc) ==
    LET critical_alarms == CountSeverity(sc.alarms, "CRITICAL")
        high_alarms == CountSeverity(sc.alarms, "HIGH")
    IN IF high_alarms > 2 THEN "ALARM"
       ELSE IF high_alarms > 0 THEN "WARNING"
       ELSE IF critical_alarms > 0 THEN "CRITICAL"
       ELSE "NORMAL"

\* SCADASystem.evaluate_system_status: it reads self.alarms only
evaluate_system_status(sc) ==
    LET critical_alarms == CountSeverity(sc.alarms, "CRITICAL")
        high_alarms == CountSeverity(sc.alarms, "HIGH")
    IN IF critical_alarms > 0 THEN "CRITICAL"
       ELSE IF high_alarms > 2 THEN "ALARM"
       ELSE IF high_alarms > 0 THEN "WARNING"
       ELSE "NORMAL"

\* SCADASystem.update with the fleet as it stands when update is called:
\* line 23 evaluates the status from self.alarms before line 27 replaces
\* self.alarms by the fleet's alarms
update(sc, fleet) ==
    Bind([sc EXCEPT !.system_status = evaluate_system_status(sc)], LAMBDA sc1 :
    Bind([sc1 EXCEPT !.alarms = get_all_alarms(fleet)], LAMBDA sc2 :
         [scada |-> sc2,
          result |-> [system_status |-> sc2.system_status,
                      alarm_count |-> Len(sc2.alarms)]]))

(***************************************************************************)
(* SpecESD: one Emergency Shutdown controller, scanned at any instants     *)
(* with any trigger values                                                 *)
(***************************************************************************)
ESDReading(n, eb, p, fire, leak, b) ==
    [vals |-> (<<"emergency_button", n>> :> eb) @@ (<<"pressure", n>> :> p)
               @@ (<<"fire_detector", n>> :> fire) @@ (<<"gas_leak", n>> :> leak),
     bad |-> b]

\* no key at all; every combination of the triggers around the 90 bar trip;
\* an ill-typed pressure reading
ESDSensorData(n) ==
    {[vals |-> EmptyDict, bad |-> {}]}
    \cup {ESDReading(n, eb, p, fire, leak, {}) :
            eb \in BOOLEAN, p \in {50, 90, 91}, fire \in BOOLEAN, leak \in BOOLEAN}
    \cup {ESDReading(n, eb, 50, FALSE, FALSE, {<<"pressure", n>>}) : eb \in BOOLEAN}

InitESD ==
    /\ now = 0
    /\ network = NoNetwork
    /\ plcs = <<EmergencyShutdownPLC(PlcId("EMERGENCY_SHUTDOWN", "N1"), "N1", 0)>>
    /\ ret = NoRet
    /\ scada = NoScada
    /\ tick = NoTick
    /\ hist = NoHist
    /\ sensors = NoSensors
    /\ sim = NoSim

ESDScan == \E t \in ShortCallTimes(now), sd \in ESDSensorData("N1") : ScanCall(1, t, sd, MaxAlarms)

NextESD == ESDScan

SpecESD == InitESD /\ [][NextESD]_vars

(***************************************************************************)
(* SpecSkip: one Emergency Shutdown controller whose is_active attribute   *)
(* is either value when the calls begin (the attribute is public and       *)
(* nothing in the repository assigns it after __init__)                    *)
(***************************************************************************)
InitSkip ==
    /\ now = 0
    /\ network = NoNetwork
    /\ \E active \in BOOLEAN :
         plcs = <<[EmergencyShutdownPLC(PlcId("EMERGENCY_SHUTDOWN", "N1"), "N1", 0)
                     EXCEPT !.is_active = active]>>
    /\ ret = NoRet
    /\ scada = NoScada
    /\ tick = NoTick
    /\ hist = NoHist
    /\ sensors = NoSensors
    /\ sim = NoSim

SkipScan ==
    \E t \in ShortCallTimes(now), sd \in ESDSensorData("N1") :
        ScanCall(1, t, sd, MaxAlarms)

NextSkip == SkipScan

SpecSkip == InitSkip /\ [][NextSkip]_vars

(***************************************************************************)
(* SpecComp: one Compressor Management controller, scanned at instants     *)
(* around the multiples of TimeGrid                                        *)
(***************************************************************************)
CompReading(n, sp, dp, vib, oil, mstart, mstop, b) ==
    [vals |-> (<<"suction_pressure", n>> :> sp) @@ (<<"discharge_pressure", n>> :> dp)
               @@ (<<"vibration", n>> :> vib) @@ (<<"oil_temperature", n>> :> oil)
               @@ (<<"manual_start", n>> :> mstart) @@ (<<"manual_stop", n>> :> mstop),
     bad |-> b]

\* no key at all (hold); suction pressure at the start and stop pressures;
\* an interlock violated; an ill-typed discharge pressure
CompSensorData(n) ==
    {[vals |-> EmptyDict, bad |-> {}],
     CompReading(n, 35, 50, 5, 80, FALSE, FALSE, {}),
     CompReading(n, 55, 50, 5, 80, FALSE, FALSE, {}),
     CompReading(n, 35, 50, 51, 80, FALSE, FALSE, {}),
     CompReading(n, 40, 50, 5, 80, FALSE, FALSE, {<<"discharge_pressure", n>>})}

InitComp ==
    /\ now = 0
    /\ network = NoNetwork
    /\ plcs = <<CompressorManagementPLC(PlcId("COMPRESSOR_MANAGEMENT", "N1"), "N1", 0)>>
    /\ ret = NoRet
    /\ scada = NoScada
    /\ tick = NoTick
    /\ hist = NoHist
    /\ sensors = NoSensors
    /\ sim = NoSim

CompScan ==
    \E t \in CallTimes(now), sd \in CompSensorData("N1") :
        /\ ScanCall(1, t, sd, MaxCompAlarms)
        /\ plcs'[1].run_hours <= MaxRunScans

NextComp == CompScan

SpecComp == InitComp /\ [][NextComp]_vars

(***************************************************************************)
(* SpecInterlock: one Compressor Management controller, scanned up to two  *)
(* scan periods apart with readings on both sides of every interlock and   *)
(* of the hysteresis band, with and without the manual commands            *)
(***************************************************************************)
\* no key at all (suction 40, inside the band); suction at the start
\* pressure, at the stop pressure and one bar inside the band on either
\* side; MANUAL_START alone, with MANUAL_STOP, and with the suction pressure
\* above its maximum; MANUAL_STOP alone; a vibration and an oil temperature
\* above their limits; a suction pressure above its maximum together with an
\* ill-typed discharge pressure
InterlockSensorData(n) ==
    {[vals |-> EmptyDict, bad |-> {}],
     CompReading(n, 35, 50, 5, 80, FALSE, FALSE, {}),
     CompReading(n, 36, 50, 5, 80, FALSE, FALSE, {}),
     CompReading(n, 54, 50, 5, 80, FALSE, FALSE, {}),
     CompReading(n, 55, 50, 5, 80, FALSE, FALSE, {}),
     CompReading(n, 45, 50, 5, 80, TRUE, FALSE, {}),
     CompReading(n, 45, 50, 5, 80, TRUE, TRUE, {}),
     CompReading(n, 61, 50, 5, 80, TRUE, FALSE, {}),
     CompReading(n, 45, 50, 5, 80, FALSE, TRUE, {}),
     CompReading(n, 45, 50, 51, 80, FALSE, FALSE, {}),
     CompReading(n, 45, 50, 5, 121, TRUE, FALSE, {}),
     CompReading(n, 61, 50, 5, 80, FALSE, FALSE, {<<"discharge_pressure", n>>})}

InitInterlock ==
    /\ now = 0
    /\ network = NoNetwork
    /\ plcs = <<CompressorManagementPLC(PlcId("COMPRESSOR_MANAGEMENT", "N1"), "N1", 0)>>
    /\ ret = NoRet
    /\ scada = NoScada
    /\ tick = NoTick
    /\ hist = NoHist
    /\ sensors = NoSensors
    /\ sim = NoSim

InterlockScan ==
    \E t \in ShortCallTimes(now), sd \in InterlockSensorData("N1") :
        ScanCall(1, t, sd, MaxInterlockAlarms)

NextInterlock == InterlockScan

SpecInterlock == InitInterlock /\ [][NextInterlock]_vars

(***************************************************************************)
(* SpecValve: one Valve Control controller, scanned at instants around the *)
(* multiples of TimeGrid                                                   *)
(***************************************************************************)
ValveReading(n, fb, open, close, ls_open, ls_closed, torque, b) ==
    [vals |-> (<<"position_feedback", n>> :> fb) @@ (<<"valve_open", n>> :> open)
               @@ (<<"valve_close", n>> :> close)
               @@ (<<"valve_fully_open", n>> :> ls_open)
               @@ (<<"valve_fully_closed", n>> :> ls_closed)
               @@ (<<"valve_torque", n>> :> torque),
     bad |-> b]

\* no key at all (in position); open and close commands, alone, together and
\* against a limit switch; feedback below and above the tolerance band;
\* torque above the limit; an ill-typed feedback
ValveSensorData(n) ==
    {[vals |-> EmptyDict, bad |-> {}],
     ValveReading(n, 50, TRUE, FALSE, FALSE, FALSE, 0, {}),
     ValveReading(n, 50, FALSE, TRUE, FALSE, FALSE, 0, {}),
     ValveReading(n, 50, TRUE, TRUE, TRUE, FALSE, 0, {}),
     ValveReading(n, 47, FALSE, FALSE, FALSE, FALSE, 500, {}),
     ValveReading(n, 53, FALSE, FALSE, FALSE, FALSE, 0, {}),
     ValveReading(n, 48, TRUE, FALSE, TRUE, FALSE, 0, {}),
     ValveReading(n, 50, TRUE, FALSE, FALSE, FALSE, 501, {}),
     ValveReading(n, 50, TRUE, FALSE, FALSE, FALSE, 501, {<<"position_feedback", n>>})}

InitValve ==
    /\ now = 0
    /\ network = NoNetwork
    /\ plcs = <<ValveControlPLC(PlcId("VALVE_CONTROL", "N1"), "N1", 0)>>
    /\ ret = NoRet
    /\ scada = NoScada
    /\ tick = NoTick
    /\ hist = NoHist
    /\ sensors = NoSensors
    /\ sim = NoSim

ValveScan ==
    \E t \in CallTimes(now), sd \in ValveSensorData("N1") :
        ScanCall(1, t, sd, MaxAlarms)

NextValve == ValveScan

SpecValve == InitValve /\ [][NextValve]_vars

(***************************************************************************)
(* SpecAssign: PLCManager.initialize_plcs on a fresh manager, over every   *)
(* topology of 1..MaxNodes nodes (node ids 1, 2, ... in dict order)        *)
(***************************************************************************)
NodeTypes == {"source", "junction", "compressor", "sink"}

\* the topology of n nodes whose types f gives
Topology(n, f) ==
    [nodes |-> [k \in 1..n |-> [id |-> k, type |-> f[k]]], pipes |-> <<>>]

InitAssign ==
    /\ now = 0
    /\ \E n \in 1..MaxNodes : \E f \in [1..n -> NodeTypes] : network = Topology(n, f)
    /\ plcs = <<>>
    /\ ret = NoRet
    /\ scada = NoScada
    /\ tick = NoTick
    /\ hist = NoHist
    /\ sensors = NoSensors
    /\ sim = NoSim

\* load_network_data, line 65 (the manager holds no controller yet)
InitializePlcs ==
    /\ plcs = <<>>
    /\ plcs' = initialize_plcs(plcs, network, now)
    /\ UNCHANGED <<now, network, ret, scada, tick, hist, sim, sensors>>

NextAssign == InitializePlcs

SpecAssign == InitAssign /\ [][NextAssign]_vars

(***************************************************************************)
(* SpecScada: evaluate_system_status over every alarm list of up to        *)
(* MaxScadaAlarms alarms; ret.outputs is the status returned               *)
(***************************************************************************)
Severities == {"LOW", "MEDIUM", "HIGH", "CRITICAL"}

ScadaAlarm(severity) ==
    [plc_id |-> PlcId("", ""), node_id |-> "", alarm_id |-> "A",
     severity |-> severity, acknowledged |-> FALSE]

\* the alarm list of n alarms whose severities f gives
AlarmList(n, f) == [k \in 1..n |-> ScadaAlarm(f[k])]

InitScada ==
    /\ now = 0
    /\ network = NoNetwork
    /\ plcs = <<>>
    /\ ret = NoRet
    /\ \E n \in 0..MaxScadaAlarms : \E f \in [1..n -> Severities] :
           scada = [NoScada EXCEPT !.alarms = AlarmList(n, f)]
    /\ tick = NoTick
    /\ hist = NoHist
    /\ sensors = NoSensors
    /\ sim = NoSim

EvaluateSystemStatus ==
    /\ ~ret.ran
    /\ ret' = [NoRet EXCEPT !.ran = TRUE, !.outputs = evaluate_system_status(scada)]
    /\ UNCHANGED <<now, network, plcs, scada, tick, hist, sim, sensors>>

NextScada == EvaluateSystemStatus

SpecScada == InitScada /\ [][NextScada]_vars

(***************************************************************************)
(* gas_physics_engine.py.  Pressures are in bar, temperatures in degrees   *)
(* C, pipe diameters in tenths of a metre, flow rates in tenths of a unit  *)
(* (rounded down).  A pipe carries computed: whether simulate_step has     *)
(* stored its flow_rate and pressure_drop keys yet.                        *)
(***************************************************************************)
\* GasPhysicsEngine.ambient_temperature
AmbientTemperature == 20

Max(a, b) == IF a > b THEN a ELSE b

\* simulate_step, lines 54-78: one node, nz being what the two random.gauss
\* calls for it return
node_step(node, sd, nz) ==
    LET base_pressure == node.pressure
        pressure ==
          CASE node.type = "source" -> base_pressure + nz.dp
            [] node.type = "compressor" ->
                 IF Get(sd.vals, <<"compressor_speed", node.id>>, 0) > 1000
                 THEN Min(80, base_pressure + 3)
                 ELSE Max(30, base_pressure - 1)
            [] node.type = "sink" ->
                 Max(25, base_pressure
                           - (Get(sd.vals, <<"flow", node.id>>, 50) \div 100))
            [] OTHER -> base_pressure + nz.dp
    IN [node EXCEPT !.pressure = pressure,
                    !.temperature = AmbientTemperature + nz.dt]

HasNode(nodes, node_id) == \E k \in DOMAIN nodes : nodes[k].id = node_id

NodeAt(nodes, node_id) == nodes[CHOOSE k \in DOMAIN nodes : nodes[k].id = node_id]

\* simulate_step, lines 82-90: nodes[...] raises KeyError for a node id that
\* is no key, the division raises ZeroDivisionError for a length of 0
pipe_raises(nodes, pipe) ==
    \/ ~HasNode(nodes, pipe.from_node)
    \/ ~HasNode(nodes, pipe.to_node)
    \/ pipe.length = 0

\* simulate_step, lines 82-94: one pipe
pipe_step(nodes, pipe) ==
    LET pressure_diff == NodeAt(nodes, pipe.from_node).pressure
                           - NodeAt(nodes, pipe.to_node).pressure
        flow_capacity == pipe.diameter * pipe.diameter
    IN [pipe EXCEPT !.flow_rate =
                       Max(0, (10 * pressure_diff * flow_capacity) \div pipe.length),
                    !.pressure_drop = pressure_diff,
                    !.computed = TRUE]

\* GasPhysicsEngine.simulate_step: the topology afterwards (the dicts are
\* updated in place), and whether the except branch of line 96 was taken.
\* The node loop runs to its end before the pipe loop begins; the pipe loop
\* stops at the first pipe that raises
simulate_step(net, sd, noise) ==
    Bind([k \in DOMAIN net.nodes |-> node_step(net.nodes[k], sd, noise[k])],
         LAMBDA nodes :
    Bind({k \in DOMAIN net.pipes : pipe_raises(nodes, net.pipes[k])},
         LAMBDA raising :
    Bind(IF raising = {} THEN Len(net.pipes) + 1
         ELSE CHOOSE k \in raising : \A j \in raising : k <= j,
         LAMBDA first :
         [network |-> [nodes |-> nodes,
                       pipes |-> [k \in DOMAIN net.pipes |->
                                    IF k < first THEN pipe_step(nodes, net.pipes[k])
                                    ELSE net.pipes[k]]],
          raised |-> raising # {}])))

(***************************************************************************)
(* Spec: the simulator after construction on the built-in network, and its *)
(* loop.  Node pressures, temperatures and pipe flows are not held as      *)
(* state: what update_all_sensors reads off them is drawn from             *)
(* LoopSensorData.  Vibration readings are in tenths of a mm/s.            *)
(***************************************************************************)
GasNode(id, type, pressure, temperature) ==
    [id |-> id, type |-> type, pressure |-> pressure, temperature |-> temperature]

\* a pipe as the dict literal gives it: no flow_rate and no pressure_drop yet
GasPipe(id, from_node, to_node, length, diameter) ==
    [id |-> id, from_node |-> from_node, to_node |-> to_node, length |-> length,
     diameter |-> diameter, flow_rate |-> 0, pressure_drop |-> 0,
     computed |-> FALSE]

\* gas_physics_engine.py, load_gaslib_network
load_gaslib_network ==
    [nodes |-> <<GasNode("Source_1", "source", 60, 20),
                 GasNode("Junction_1", "junction", 55, 20),
                 GasNode("Junction_2", "junction", 52, 20),
                 GasNode("Compressor_1", "compressor", 58, 25),
                 GasNode("Junction_3", "junction", 50, 22),
                 GasNode("Junction_4", "junction", 48, 22),
                 GasNode("Sink_1", "sink", 45, 20),
                 GasNode("Sink_2", "sink", 40, 20)>>,
     pipes |-> <<GasPipe("Pipe_1", "Source_1", "Junction_1", 10, 8),
                 GasPipe("Pipe_2", "Junction_1", "Junction_2", 10, 8),
                 GasPipe("Pipe_3", "Junction_2", "Compressor_1", 12, 8),
                 GasPipe("Pipe_4", "Compressor_1", "Junction_3", 10, 8),
                 GasPipe("Pipe_5", "Junction_3", "Junction_4", 8, 6),
                 GasPipe("Pipe_6", "Junction_4", "Sink_1", 10, 6),
                 GasPipe("Pipe_7", "Junction_2", "Sink_2", 15, 4)>>]

\* sensor_manager.py, initialize_sensors: the sensor ids of one node
node_sensors(node) ==
    {<<"pressure", node.id>>, <<"temperature", node.id>>,
     <<"gas_leak", node.id>>, <<"fire_detector", node.id>>}
    \cup (CASE node.type = "source" ->
                 {<<"flow", node.id>>, <<"gas_composition", node.id>>}
            [] node.type = "compressor" ->
                 {<<"compressor_speed", node.id>>, <<"vibration", node.id>>,
                  <<"oil_temperature", node.id>>, <<"suction_pressure", node.id>>,
                  <<"discharge_pressure", node.id>>}
            [] node.type = "sink" -> {<<"flow", node.id>>}
            [] OTHER -> {})

\* sensor_manager.py, initialize_sensors: the ids of all sensors
initialize_sensors(net) ==
    UNION {node_sensors(net.nodes[k]) : k \in DOMAIN net.nodes}
    \cup UNION {{<<"valve_position", net.pipes[k].id>>, <<"flow", net.pipes[k].id>>,
                 <<"differential_pressure", net.pipes[k].id>>} :
                   k \in DOMAIN net.pipes}

\* a reading simulate_sensor_reading can return for each sensor in a quiet
\* plant: pressures and temperatures near their base values, the worn
\* machine's vibration, no leak and no fire
quiet_reading(sensor_id) ==
    CASE sensor_id[1] \in {"pressure", "suction_pressure", "discharge_pressure",
                           "differential_pressure"} -> 50
      [] sensor_id[1] \in {"temperature", "oil_temperature"} -> 20
      [] sensor_id[1] = "flow" -> 100
      [] sensor_id[1] = "gas_composition" -> 95
      [] sensor_id[1] = "vibration" -> 25
      [] sensor_id[1] = "compressor_speed" -> 0
      [] sensor_id[1] = "valve_position" -> 50
      [] sensor_id[1] \in {"gas_leak", "fire_detector"} -> FALSE

QuietVals(net) == [sensor_id \in initialize_sensors(net) |-> quiet_reading(sensor_id)]

\* what random.randint(0, 100) may return
Draws == {0, 100}

\* sensor_data as update_all_sensors can return it: the quiet plant; a gas
\* leak reading at Junction_1; a fire reading at Junction_4; a pressure
\* reading over 85 bar at Junction_4; a fire reading at Source_1
LoopSensorData(net) ==
    {[vals |-> QuietVals(net), bad |-> {}, draw |-> d] : d \in Draws}
    \cup {[vals |-> v, bad |-> {}, draw |-> 0] :
             v \in {Put(QuietVals(net), <<"gas_leak", "Junction_1">>, TRUE),
                    Put(QuietVals(net), <<"fire_detector", "Junction_4">>, TRUE),
                    Put(QuietVals(net), <<"pressure", "Junction_4">>, 86),
                    Put(QuietVals(net), <<"fire_detector", "Source_1">>, TRUE)}}

\* sensor_data a caller of execute_all_plcs can pass: readings with an
\* ill-typed value under some keys
AnySensorData(net) ==
    {[vals |-> QuietVals(net), bad |-> b, draw |-> 0] :
        b \in {{<<"pressure", "Source_1">>}, {<<"flow", "Sink_1">>},
               {<<"pressure", "Junction_1">>, <<"flow", "Sink_2">>}}}

(***************************************************************************)
(* sensor_manager.py: the sensor table and the readings.  A sensor id      *)
(* f"{name}_{location}" is the pair <<name, location>>.  Readings are in   *)
(* the units the controllers use (bar, degrees C, kg/s, tenths of a mm/s,  *)
(* percent, RPM), rounded to the unit.  The wall clock time.time() is      *)
(* counted in quarters of the period of sin(t / 8640), QuarterPeriod       *)
(* seconds each.  A draw is what the random module returns for one sensor: *)
(* gauss in units of the standard deviation, random in thousandths.        *)
(***************************************************************************)
\* initialize_sensors: the sensor_type it passes to add_sensor for each name
sensor_type_of(name) ==
    CASE name \in {"pressure", "suction_pressure", "discharge_pressure",
                   "differential_pressure"} -> "pressure"
      [] name \in {"temperature", "oil_temperature"} -> "temperature"
      [] name \in {"gas_leak", "fire_detector"} -> "leak_detection"
      [] name = "compressor_speed" -> "compressor_status"
      [] OTHER -> name

get_initial_value(sensor_type) ==
    CASE sensor_type = "pressure" -> 50
      [] sensor_type = "temperature" -> 20
      [] sensor_type = "flow" -> 100
      [] sensor_type = "vibration" -> 5
      [] sensor_type = "gas_composition" -> 95
      [] sensor_type = "leak_detection" -> FALSE
      [] sensor_type = "valve_position" -> 50
      [] sensor_type = "compressor_status" -> 0

add_sensor(tbl, sensor_id, sensor_type, location) ==
    Put(tbl, sensor_id, [type |-> sensor_type, location |-> location,
                         value |-> get_initial_value(sensor_type),
                         quality |-> "GOOD"])

\* initialize_sensors: self.sensors after the call, tbl being self.sensors
\* before it
sensor_table(tbl, net) ==
    [sensor_id \in initialize_sensors(net) \cup DOMAIN tbl |->
        IF sensor_id \in initialize_sensors(net)
        THEN add_sensor(tbl, sensor_id, sensor_type_of(sensor_id[1]),
                        sensor_id[2])[sensor_id]
        ELSE tbl[sensor_id]]

\* 2 * pi * 8640 / 4 seconds
QuarterPeriod == 13572

\* 5.0 * math.sin(current_time / 8640) at the quarters of the period
seasonal_variation(current_time) ==
    CASE current_time % 4 = 1 -> 5
      [] current_time % 4 = 3 -> 0 - 5
      [] OTHER -> 0

\* min(2.0, current_time / 100000), in tenths
wear_factor(current_time) == Min(20, (current_time * QuarterPeriod) \div 10000)

\* location.startswith('compressor') or 'compressor' in location, for the
\* locations of the topologies explored
names_compressor(location) == location \in {"compressor_1"}

simulate_sensor_reading(sensor, net, current_time, dr) ==
    CASE sensor.type = "pressure" ->
           Max(0, (IF HasNode(net.nodes, sensor.location)
                   THEN NodeAt(net.nodes, sensor.location).pressure ELSE 50)
                  + dr.gauss)
      [] sensor.type = "temperature" -> 20 + seasonal_variation(current_time)
      [] sensor.type = "flow" -> Max(0, 100 + 5 * dr.gauss)
      [] sensor.type = "vibration" ->
           Max(0, 5 + wear_factor(current_time) + dr.gauss)
      [] sensor.type = "gas_composition" -> Max(90, Min(100, 95 + dr.gauss))
      [] sensor.type = "leak_detection" -> dr.random < 1
      [] sensor.type = "valve_position" ->
           Max(0, Min(100, sensor.value + (50 - sensor.value) \div 10))
      [] sensor.type = "compressor_status" ->
           IF names_compressor(sensor.location) /\ dr.random < 800
           THEN 3000 + 50 * dr.gauss ELSE 0

\* update_all_sensors at wall clock current_time, draws giving the draws of
\* each sensor: self.sensors afterwards and the sensor_data returned
update_all_sensors(tbl, net, current_time, draws) ==
    Bind([sensor_id \in DOMAIN tbl |->
            simulate_sensor_reading(tbl[sensor_id], net, current_time,
                                    draws[sensor_id])],
         LAMBDA new_value :
         [sensors |-> [sensor_id \in DOMAIN tbl |->
                         [tbl[sensor_id] EXCEPT !.value = new_value[sensor_id]]],
          sensor_data |-> [vals |-> new_value, bad |-> {}, draw |-> 0]])

\* GasPipelineSimulator.__init__: load_network_data on fresh components
Init ==
    /\ now = 0
    /\ network = load_gaslib_network
    /\ plcs = initialize_plcs(<<>>, load_gaslib_network, 0)
    /\ ret = NoRet
    /\ scada = NoScada
    /\ tick = NoTick
    /\ hist = NoHist
    /\ sensors = NoSensors
    /\ sim = NoSim

FleetAlarmsWithin(fleet) ==
    \A k \in DOMAIN fleet : Len(fleet[k].alarms) <= MaxFleetAlarms

\* the instants an iteration of simulation_loop can make its pass at: the
\* first one any time after construction, a later one at least the 0.1 s of
\* time.sleep (main.py line 135) after the one before
StepTimes ==
    {t \in now..MaxTimeFleet :
        /\ t <= now + 2 * ScanTime
        /\ tick.step_count > 0 => t >= tick.at + ScanTime}

\* one iteration of simulation_loop, main.py lines 102-135, at clock value t,
\* update_all_sensors returning one of sds
LoopPass(sds) ==
    /\ tick.step_count < MaxSteps
    /\ \E t \in StepTimes, sd \in sds :
        \E pass \in {execute_all_plcs(plcs, sd, t)} :
        \E u \in {update(scada, pass.plcs)} :
           /\ FleetAlarmsWithin(pass.plcs)
           /\ now' = t
           /\ plcs' = pass.plcs
           /\ scada' = u.scada
           /\ tick' = [step_count |-> tick.step_count + 1, at |-> t,
                       plc_outputs |-> pass.all_outputs, calls |-> pass.calls,
                       updated |-> TRUE, scada_data |-> u.result]
           /\ UNCHANGED <<network, ret, hist, sim, sensors>>

Tick == LoopPass(LoopSensorData(network))

\* PLCManager.execute_all_plcs called on its own, with any sensor_data
ExecuteAllPlcs ==
    \E t \in now..Min(now + 2 * ScanTime, MaxTimeFleet),
       sd \in AnySensorData(network) :
        \E pass \in {execute_all_plcs(plcs, sd, t)} :
           /\ FleetAlarmsWithin(pass.plcs)
           /\ now' = t
           /\ plcs' = pass.plcs
           /\ tick' = [tick EXCEPT !.plc_outputs = pass.all_outputs,
                                   !.calls = pass.calls, !.updated = FALSE]
           /\ UNCHANGED <<network, ret, scada, hist, sim, sensors>>

Next == Tick \/ ExecuteAllPlcs

Spec == Init /\ [][Next]_vars

(***************************************************************************)
(* SpecCommand: the simulator and its loop, with commands posted to        *)
(* controllers between two iterations                                      *)
(***************************************************************************)
\* the controller ids POST /api/plc/<plc_id>/control is called with: the
\* emergency shutdown controller, the compressor controller, no controller
CommandTargets ==
    {PlcId("EMERGENCY_SHUTDOWN", "Source_1"),
     PlcId("COMPRESSOR_MANAGEMENT", "Compressor_1"),
     PlcId("EMERGENCY_SHUTDOWN", "Nowhere")}

\* and the JSON bodies
Commands == {("EMERGENCY_BUTTON" :> TRUE), ("MANUAL_STOP" :> TRUE)}

\* main.py, control_plc: one call of send_command_to_plc between two
\* iterations of the loop.  ret is the call and what it returned, with the
\* last_scan and the alarm log length of every controller at that moment
SendCommandToPlc ==
    \E plc_id \in CommandTargets, command \in Commands :
        \E r \in {send_command_to_plc(plcs, plc_id, command)} :
           /\ plcs' = r.plcs
           /\ ret' = [call |-> "send_command_to_plc", plc_id |-> plc_id,
                      command |-> command, result |-> r.result,
                      seen |-> [k \in DOMAIN plcs |->
                                   <<plcs[k].last_scan, Len(plcs[k].alarms)>>]]
           /\ UNCHANGED <<now, network, scada, tick, hist, sim, sensors>>

\* sensor_data of the iterations: the quiet plant, or a fire reading at
\* Source_1
CommandSensorData(net) ==
    {[vals |-> v, bad |-> {}, draw |-> 0] :
        v \in {QuietVals(net),
               Put(QuietVals(net), <<"fire_detector", "Source_1">>, TRUE)}}

CommandTick == LoopPass(CommandSensorData(network))

NextCommand == CommandTick \/ SendCommandToPlc

SpecCommand == Init /\ [][NextCommand]_vars

(***************************************************************************)
(* SpecAlarms: one Safety Monitoring controller whose alarm log is written *)
(* by its scans and by direct calls of add_alarm, acknowledge_alarm and    *)
(* clear_acknowledged_alarms, in any order                                 *)
(***************************************************************************)
\* no key at all; a fire reading; a gas leak reading; an ill-typed pressure
AlarmsSensorData(n) ==
    {[vals |-> EmptyDict, bad |-> {}],
     [vals |-> (<<"fire_detector", n>> :> TRUE), bad |-> {}],
     [vals |-> (<<"gas_leak", n>> :> TRUE), bad |-> {}],
     [vals |-> (<<"pressure", n>> :> 50), bad |-> {<<"pressure", n>>}]}

\* the alarm ids acknowledge_alarm is called with: one the scans log, the
\* one add_alarm is called with, and one no alarm has
AlarmIds == {"ALARM_CONDITION", "OPERATOR_NOTE", "NO_SUCH_ALARM"}

InitAlarms ==
    /\ now = 0
    /\ network = NoNetwork
    /\ plcs = <<SafetyMonitoringPLC(PlcId("SAFETY_MONITORING", "N1"), "N1", 0)>>
    /\ ret = NoRet
    /\ scada = NoScada
    /\ tick = NoTick
    /\ hist = NoHist
    /\ sensors = NoSensors
    /\ sim = NoSim

AlarmsScan ==
    \E t \in ShortCallTimes(now), sd \in AlarmsSensorData("N1") :
        ScanCall(1, t, sd, MaxLogAlarms)

\* a call of a method of the controller that is not a scan
AlarmsCall(name, plc) ==
    /\ plcs' = [plcs EXCEPT ![1] = plc]
    /\ ret' = [NoRet EXCEPT !.call = name, !.plc_id = plcs[1].plc_id, !.at = now]
    /\ UNCHANGED <<now, network, scada, tick, hist, sim, sensors>>

AddAlarm ==
    /\ Len(plcs[1].alarms) < MaxLogAlarms
    /\ AlarmsCall("add_alarm", add_alarm(plcs[1], "OPERATOR_NOTE", "LOW"))

AcknowledgeAlarm ==
    \E alarm_id \in AlarmIds :
        AlarmsCall("acknowledge_alarm", acknowledge_alarm(plcs[1], alarm_id))

ClearAcknowledgedAlarms ==
    AlarmsCall("clear_acknowledged_alarms", clear_acknowledged_alarms(plcs[1]))

NextAlarms ==
    AlarmsScan \/ AddAlarm \/ AcknowledgeAlarm \/ ClearAcknowledgedAlarms

SpecAlarms == InitAlarms /\ [][NextAlarms]_vars

(***************************************************************************)
(* SpecLife: the simulator with requests to start and stop the simulation  *)
(* served by concurrent threads, and the loop threads these start.  A      *)
(* step is one statement of start_simulation or stop_simulation, the test  *)
(* of the while of simulation_loop, the body of one iteration, or one of   *)
(* its sleeps.                                                             *)
(***************************************************************************)
\* the threads of the web server that serve the start and stop requests
ApiThreads == {1, 2}

IdleApi == [pc |-> "idle", call |-> "none", result |-> FALSE, joined |-> FALSE]

\* threading.Thread(target=self.simulation_loop), started: pc is the
\* statement the thread is at, last how its last iteration ended
NewLoop == [pc |-> "while", last |-> "none"]

\* the simulator when the requests begin: as constructed, or (run as a
\* script, main.py line 252) with the simulation started
SimAtStart(started, threads) ==
    IF started
    THEN [NoSim EXCEPT !.simulation_running = TRUE, !.simulation_thread = 1,
                       !.loops = <<NewLoop>>,
                       !.api = [a \in threads |-> IdleApi]]
    ELSE [NoSim EXCEPT !.api = [a \in threads |-> IdleApi]]

InitLife ==
    /\ now = 0
    /\ network = load_gaslib_network
    /\ plcs = initialize_plcs(<<>>, load_gaslib_network, 0)
    /\ ret = NoRet
    /\ scada = NoScada
    /\ tick = NoTick
    /\ hist = NoHist
    /\ sensors = NoSensors
    /\ \E started \in BOOLEAN : sim = SimAtStart(started, ApiThreads)

\* a request returns result to its caller
ApiReturn(a, call, result, joined) ==
    [pc |-> "idle", call |-> call, result |-> result, joined |-> joined]

\* (a variant of the test of start_simulation that never refuses)
start_refused_never(s) == FALSE

\* start_simulation, line 143: the call is refused
start_refused(s) == s.simulation_running

\* start_simulation, line 143 (and line 150 when refused)
StartSimulation(a) ==
    /\ sim.api[a].pc = "idle"
    /\ sim.calls < MaxApiCalls
    /\ sim' = [sim EXCEPT
                 !.calls = @ + 1,
                 !.api[a] = IF start_refused(sim)
                            THEN ApiReturn(a, "start_simulation", FALSE, FALSE)
                            ELSE [IdleApi EXCEPT !.pc = "start_set",
                                                 !.call = "start_simulation"]]
    /\ UNCHANGED <<now, network, plcs, ret, scada, tick, hist, sensors>>

\* start_simulation, line 144
StartSet(a) ==
    /\ sim.api[a].pc = "start_set"
    /\ sim' = [sim EXCEPT !.simulation_running = TRUE,
                          !.api[a].pc = "start_thread"]
    /\ UNCHANGED <<now, network, plcs, ret, scada, tick, hist, sensors>>

\* start_simulation, lines 145-149
StartThread(a) ==
    /\ sim.api[a].pc = "start_thread"
    /\ sim' = [sim EXCEPT
                 !.loops = Append(@, NewLoop),
                 !.simulation_thread = Len(sim.loops) + 1,
                 !.api[a] = ApiReturn(a, "start_simulation", TRUE, FALSE)]
    /\ UNCHANGED <<now, network, plcs, ret, scada, tick, hist, sensors>>

\* stop_simulation, line 154 (and line 160 when refused)
StopSimulation(a) ==
    /\ sim.api[a].pc = "idle"
    /\ sim.calls < MaxApiCalls
    /\ sim' = [sim EXCEPT
                 !.calls = @ + 1,
                 !.api[a] = IF ~sim.simulation_running
                            THEN ApiReturn(a, "stop_simulation", FALSE, FALSE)
                            ELSE [IdleApi EXCEPT !.pc = "stop_clear",
                                                 !.call = "stop_simulation"]]
    /\ UNCHANGED <<now, network, plcs, ret, scada, tick, hist, sensors>>

\* stop_simulation, line 155
StopClear(a) ==
    /\ sim.api[a].pc = "stop_clear"
    /\ sim' = [sim EXCEPT !.simulation_running = FALSE,
                          !.api[a].pc = "stop_join"]
    /\ UNCHANGED <<now, network, plcs, ret, scada, tick, hist, sensors>>

\* stop_simulation, lines 156-159: join(timeout=5) returns when the thread
\* has ended, or when the 5 s have passed and it has not
StopJoin(a) ==
    /\ sim.api[a].pc = "stop_join"
    /\ sim' = [sim EXCEPT
                 !.api[a] = ApiReturn(a, "stop_simulation", TRUE,
                                /\ sim.simulation_thread # 0
                                /\ sim.loops[sim.simulation_thread].pc = "done")]
    /\ UNCHANGED <<now, network, plcs, ret, scada, tick, hist, sensors>>

\* (a variant of the while test that ignores the flag)
loop_continues_always(s) == TRUE

\* simulation_loop, line 100
loop_continues(s) == s.simulation_running

\* simulation_loop, line 100: the test of the while
LoopTest(i) ==
    /\ sim.loops[i].pc = "while"
    /\ sim' = [sim EXCEPT !.loops[i].pc =
                            IF loop_continues(sim) THEN "try" ELSE "done"]
    /\ UNCHANGED <<now, network, plcs, ret, scada, tick, hist, sensors>>

\* (a variant in which an exception ends the loop)
after_exception_exit(th) == [th EXCEPT !.pc = "done", !.last = "raised"]

\* simulation_loop, lines 137-139: the exception is logged and the thread
\* goes to sleep for 1 s
after_exception(th) == [th EXCEPT !.pc = "except", !.last = "raised"]

\* the instants a loop thread can make its pass at
LifeTimes == now..Min(now + ScanTime, MaxTimeFleet)

\* what update_all_sensors returns in the quiet plant
LifeSensorData(net) == [vals |-> QuietVals(net), bad |-> {}, draw |-> 0]

\* simulation_loop, lines 102-132: the body of one iteration.  It runs to
\* its end (whether store_simulation_data could store, or caught its own
\* exception and logged it), or a statement of it raises: before the pass
\* over the controllers, or after it (socketio.emit)
LoopBody(i) ==
    /\ sim.loops[i].pc = "try"
    /\ \/ /\ sim' = [sim EXCEPT !.loops[i] = after_exception(@)]
          /\ UNCHANGED <<now, network, plcs, ret, scada, tick, hist, sensors>>
       \/ \E t \in LifeTimes :
          \E pass \in {execute_all_plcs(plcs, LifeSensorData(network), t)} :
          \E u \in {update(scada, pass.plcs)} :
            /\ now' = t
            /\ plcs' = pass.plcs
            /\ scada' = u.scada
            /\ tick' = [tick EXCEPT !.at = t,
                                    !.plc_outputs = pass.all_outputs,
                                    !.calls = pass.calls, !.updated = TRUE,
                                    !.scada_data = u.result]
            /\ \/ \E stored \in {"stored", "store_failed"} :
                    sim' = [sim EXCEPT !.loops[i].pc = "sleep",
                                       !.loops[i].last = stored]
               \/ sim' = [sim EXCEPT !.loops[i] = after_exception(@)]
            /\ UNCHANGED <<network, ret, hist, sensors>>

\* simulation_loop, line 135: time.sleep(0.1) has returned
LoopSleep(i) ==
    /\ sim.loops[i].pc = "sleep"
    /\ sim' = [sim EXCEPT !.loops[i].pc = "while"]
    /\ UNCHANGED <<now, network, plcs, ret, scada, tick, hist, sensors>>

\* simulation_loop, line 139: time.sleep(1) has returned
LoopBackoff(i) ==
    /\ sim.loops[i].pc = "except"
    /\ sim' = [sim EXCEPT !.loops[i].pc = "while"]
    /\ UNCHANGED <<now, network, plcs, ret, scada, tick, hist, sensors>>

\* a step of the i-th loop thread
LoopStep(i) ==
    /\ i \in DOMAIN sim.loops
    /\ (LoopTest(i) \/ LoopBody(i) \/ LoopSleep(i) \/ LoopBackoff(i))

\* a step of the request thread a
ApiStep(a) ==
    \/ StartSimulation(a) \/ StartSet(a) \/ StartThread(a)
    \/ StopSimulation(a) \/ StopClear(a) \/ StopJoin(a)

NextLife ==
    \/ \E a \in DOMAIN sim.api : ApiStep(a)
    \/ \E i \in 1..MaxApiCalls : LoopStep(i)

SpecLife == InitLife /\ [][NextLife]_vars

\* the thread that serves the requests when they come one after another
SerialApiThreads == {1}

InitLifeFair ==
    /\ now = 0
    /\ network = load_gaslib_network
    /\ plcs = initialize_plcs(<<>>, load_gaslib_network, 0)
    /\ ret = NoRet
    /\ scada = NoScada
    /\ tick = NoTick
    /\ hist = NoHist
    /\ sensors = NoSensors
    /\ \E started \in BOOLEAN : sim = SimAtStart(started, SerialApiThreads)

\* the requests served one after another, every loop thread that can take a
\* step eventually taking one (the scheduler starves no thread; the body of
\* an iteration and the sleeps end)
SpecLifeFair ==
    /\ InitLifeFair /\ [][NextLife]_vars
    /\ \A i \in 1..MaxApiCalls : WF_vars(LoopStep(i))

(***************************************************************************)
(* SpecRace: the loop thread making its passes over the controllers, one   *)
(* step per hook call, while a request thread posts commands.  A request   *)
(* thread runs send_command_to_plc whenever the scheduler lets it: the     *)
(* code takes no lock.                                                     *)
(***************************************************************************)
\* execute_scan, lines 137-142: up to the return of update_inputs.  done:
\* execute_scan has returned (not due, or update_inputs raised)
scan_begin(plc, sd, t) ==
    IF ~plc.is_active \/ ~should_scan(plc, t)
    THEN [plc |-> plc, outputs |-> EmptyDict, ran |-> FALSE, faulted |-> FALSE,
          escaped |-> FALSE, done |-> TRUE]
    ELSE Bind(update_inputs(plc, sd), LAMBDA u :
         IF u.raised THEN ScanFault(u.plc) @@ [done |-> TRUE]
         ELSE [plc |-> u.plc, outputs |-> EmptyDict, ran |-> TRUE,
               faulted |-> FALSE, escaped |-> FALSE, done |-> FALSE])

\* execute_scan, lines 145-156: from the call of execute_logic on
scan_end(plc, t) ==
    Bind(execute_logic(plc, t), LAMBDA e :
         IF e.raised THEN ScanFault(e.plc)
         ELSE [plc |-> [e.plc EXCEPT !.last_scan = t],
               outputs |-> OutputValues(e.plc),
               ran |-> TRUE, faulted |-> FALSE, escaped |-> FALSE])

\* the loop thread between two iterations: k is the position of the
\* controller being scanned, t and sd the clock value and the sensor_data of
\* the pass, acc what execute_all_plcs has gathered, passes the passes begun
RaceLoop ==
    [pc |-> "sleep", k |-> 0, t |-> 0, sd |-> [vals |-> EmptyDict, bad |-> {}, draw |-> 0],
     acc |-> [all_outputs |-> EmptyDict, calls |-> <<>>], passes |-> 0]

InitRace ==
    /\ now = 0
    /\ network = load_gaslib_network
    /\ plcs = initialize_plcs(<<>>, load_gaslib_network, 0)
    /\ ret = NoRet
    /\ scada = NoScada
    /\ tick = NoTick
    /\ hist = NoHist
    /\ sensors = NoSensors
    /\ sim = [NoSim EXCEPT !.simulation_running = TRUE, !.simulation_thread = 1,
                           !.loops = <<RaceLoop>>]

\* simulation_loop, lines 102-111: the iteration begins, up to the call of
\* execute_all_plcs
RaceBeginPass ==
    /\ sim.loops[1].pc = "sleep"
    /\ sim.loops[1].passes < MaxRacePasses
    /\ \E t \in LifeTimes :
         /\ now' = t
         /\ sim' = [sim EXCEPT !.loops[1] =
                      [pc |-> "update_inputs", k |-> 1, t |-> t,
                       sd |-> LifeSensorData(network),
                       acc |-> [all_outputs |-> EmptyDict, calls |-> <<>>],
                       passes |-> sim.loops[1].passes + 1]]
    /\ UNCHANGED <<network, plcs, ret, scada, tick, hist, sensors>>

\* execute_all_plcs, lines 93-94: execute_scan has returned r for the
\* controller at position k; on to the next controller, or to the aggregator
RaceScanReturned(th, plc_id, r) ==
    [th EXCEPT !.acc = [all_outputs |-> Put(th.acc.all_outputs, plc_id, r.outputs),
                        calls |-> Append(th.acc.calls, plc_id)],
               !.k = IF th.k < Len(plcs) THEN th.k + 1 ELSE 0,
               !.pc = IF th.k < Len(plcs) THEN "update_inputs" ELSE "update_scada"]

\* the loop thread runs execute_scan up to the return of update_inputs
RaceUpdateInputs ==
    /\ sim.loops[1].pc = "update_inputs"
    /\ \E th \in {sim.loops[1]} :
       \E r \in {scan_begin(plcs[th.k], th.sd, th.t)} :
         /\ plcs' = [plcs EXCEPT ![th.k] = r.plc]
         /\ sim' = [sim EXCEPT !.loops[1] =
                      IF r.done THEN RaceScanReturned(th, plcs[th.k].plc_id, r)
                      ELSE [th EXCEPT !.pc = "execute_logic"]]
    /\ UNCHANGED <<now, network, ret, scada, tick, hist, sensors>>

\* the loop thread runs the rest of execute_scan
RaceExecuteLogic ==
    /\ sim.loops[1].pc = "execute_logic"
    /\ \E th \in {sim.loops[1]} :
       \E r \in {scan_end(plcs[th.k], th.t)} :
         /\ plcs' = [plcs EXCEPT ![th.k] = r.plc]
         /\ sim' = [sim EXCEPT !.loops[1] =
                      RaceScanReturned(th, plcs[th.k].plc_id, r)]
    /\ UNCHANGED <<now, network, ret, scada, tick, hist, sensors>>

\* simulation_loop, lines 114-135: the aggregator, the storing of the data
\* and the sleep
RaceEndPass ==
    /\ sim.loops[1].pc = "update_scada"
    /\ \E u \in {update(scada, plcs)} :
         /\ scada' = u.scada
         /\ tick' = [tick EXCEPT !.at = sim.loops[1].t,
                                 !.plc_outputs = sim.loops[1].acc.all_outputs,
                                 !.calls = sim.loops[1].acc.calls,
                                 !.updated = TRUE, !.scada_data = u.result]
    /\ sim' = [sim EXCEPT !.loops[1].pc = "sleep"]
    /\ UNCHANGED <<now, network, plcs, ret, hist, sensors>>

\* main.py, control_plc, on a request thread: ret is the call and what it
\* returned, with the statement the loop thread was at
RaceSendCommand ==
    /\ sim.calls < MaxRaceCommands
    /\ \E plc_id \in CommandTargets, command \in Commands :
       \E r \in {send_command_to_plc(plcs, plc_id, command)} :
         /\ plcs' = r.plcs
         /\ ret' = [call |-> "send_command_to_plc", plc_id |-> plc_id,
                    command |-> command, result |-> r.result,
                    during |-> [pc |-> sim.loops[1].pc, k |-> sim.loops[1].k]]
    /\ sim' = [sim EXCEPT !.calls = @ + 1]
    /\ UNCHANGED <<now, network, scada, tick, hist, sensors>>

NextRace ==
    \/ RaceBeginPass \/ RaceUpdateInputs \/ RaceExecuteLogic \/ RaceEndPass
    \/ RaceSendCommand

SpecRace == InitRace /\ [][NextRace]_vars

(***************************************************************************)
(* SpecPhysics: the iterations of the loop with the topology as state, on  *)
(* the built-in network and on topologies with a pipe the pipe loop of     *)
(* simulate_step cannot process                                            *)
(***************************************************************************)
\* a topology simulate_step is given: the built-in one; the same with a
\* pipe of length 0; the same with a pipe that ends at a node that is not in
\* the topology
PhysicsNetworks ==
    {load_gaslib_network,
     [load_gaslib_network EXCEPT !.pipes[7].length = 0],
     [load_gaslib_network EXCEPT !.pipes[6].to_node = "Sink_3"]}

\* what the calls of random.gauss of one step return, node by node: no
\* noise; pressure up and temperature down; the reverse; pressure up and down
\* in turn
NoisePatterns(net) ==
    {[k \in DOMAIN net.nodes |-> [dp |-> n[1], dt |-> n[2]]] :
        n \in {<<0, 0>>, <<1, -1>>, <<-1, 1>>}}
    \cup {[k \in DOMAIN net.nodes |->
             [dp |-> IF k % 2 = 0 THEN 1 ELSE -1, dt |-> 0]]}

\* update_all_sensors with no sensor noise: a pressure sensor at a node
\* reads the node's pressure, every other sensor its quiet value
PhysicsSensorData(net) ==
    [vals |-> [sensor_id \in initialize_sensors(net) |->
                 IF /\ sensor_id[1] \in {"pressure", "suction_pressure",
                                         "discharge_pressure"}
                    /\ HasNode(net.nodes, sensor_id[2])
                 THEN NodeAt(net.nodes, sensor_id[2]).pressure
                 ELSE quiet_reading(sensor_id)],
     bad |-> {}, draw |-> 0]

InitPhysics ==
    /\ now = 0
    /\ network \in PhysicsNetworks
    /\ plcs = initialize_plcs(<<>>, network, 0)
    /\ ret = NoRet
    /\ scada = NoScada
    /\ tick = NoTick
    /\ hist = NoHist
    /\ sensors = NoSensors
    /\ sim = NoSim

\* one iteration of simulation_loop, main.py lines 102-135, one scan period
\* after the one before.  ret is the call of simulate_step: faulted says
\* that it took its except branch
PhysicsTick ==
    /\ tick.step_count < MaxPhysicsSteps
    /\ \E noise \in NoisePatterns(network) :
       \E sd \in {PhysicsSensorData(network)} :
       \E ph \in {simulate_step(network, sd, noise)} :
       \E pass \in {execute_all_plcs(plcs, sd, now + ScanTime)} :
       \E u \in {update(scada, pass.plcs)} :
          /\ now' = now + ScanTime
          /\ network' = ph.network
          /\ plcs' = pass.plcs
          /\ scada' = u.scada
          /\ ret' = [NoRet EXCEPT !.call = "simulate_step", !.ran = TRUE,
                                  !.faulted = ph.raised, !.at = now + ScanTime]
          /\ tick' = [step_count |-> tick.step_count + 1, at |-> now + ScanTime,
                      plc_outputs |-> pass.all_outputs, calls |-> pass.calls,
                      updated |-> TRUE, scada_data |-> u.result]
          /\ UNCHANGED <<hist, sim, sensors>>

NextPhysics == PhysicsTick

SpecPhysics == InitPhysics /\ [][NextPhysics]_vars

(***************************************************************************)
(* SpecSensors: a SensorManager initialized on a topology and updated at   *)
(* any wall-clock instants with any draws                                  *)
(***************************************************************************)
\* create_test_network, with lengths and diameters as GasPipe takes them
create_test_network ==
    [nodes |-> <<GasNode("N1", "source", 60, 20), GasNode("N2", "junction", 50, 20),
                 GasNode("N3", "compressor", 55, 20),
                 GasNode("N4", "junction", 45, 20), GasNode("N5", "sink", 40, 20)>>,
     pipes |-> <<GasPipe("P1", "N1", "N2", 10, 6), GasPipe("P2", "N2", "N3", 10, 6),
                 GasPipe("P3", "N3", "N4", 10, 6), GasPipe("P4", "N4", "N5", 10, 6)>>]

\* the topologies initialize_sensors is given: the built-in one, the test
\* network, a single junction, and a compressor station whose id holds the
\* word compressor in lower case, with a pipe named like its sink
SensorNetworks ==
    {load_gaslib_network, create_test_network,
     [nodes |-> <<GasNode("J", "junction", 50, 20)>>, pipes |-> <<>>],
     [nodes |-> <<GasNode("compressor_1", "compressor", 58, 25),
                  GasNode("S", "sink", 40, 20)>>,
      pipes |-> <<GasPipe("S", "compressor_1", "S", 10, 8)>>]}

\* time.time() during the run, in quarter periods since the epoch
WallClocks == 130000..130003

\* the draws of one call of update_all_sensors, the same for every sensor:
\* no noise; noise upwards with random() below 0.001; noise downwards with
\* random() above 0.8
DrawPatterns(tbl) ==
    {[sensor_id \in DOMAIN tbl |-> dr] :
        dr \in {[gauss |-> 0, random |-> 500], [gauss |-> 1, random |-> 0],
                [gauss |-> 0 - 1, random |-> 900]}}

InitSensors ==
    /\ now = 0
    /\ network \in SensorNetworks
    /\ plcs = <<>>
    /\ ret = NoRet
    /\ scada = NoScada
    /\ tick = NoTick
    /\ hist = NoHist
    /\ sensors = NoSensors
    /\ sim = NoSim

\* load_network_data, line 62
InitializeSensors ==
    /\ sensors = NoSensors
    /\ sensors' = sensor_table(sensors, network)
    /\ ret' = [NoRet EXCEPT !.call = "initialize_sensors"]
    /\ UNCHANGED <<now, network, plcs, scada, tick, hist, sim>>

\* one call of update_all_sensors(self.network_data).  ret keeps the table
\* the call found, its draws, its wall clock and the sensor_data it returned
UpdateAllSensors ==
    /\ sensors # NoSensors
    /\ tick.step_count < MaxSensorUpdates
    /\ \E current_time \in WallClocks, draws \in DrawPatterns(sensors) :
       \E u \in {update_all_sensors(sensors, network, current_time, draws)} :
          /\ sensors' = u.sensors
          /\ ret' = [NoRet EXCEPT !.call = "update_all_sensors"]
                      @@ [before |-> sensors, draws |-> draws,
                          current_time |-> current_time,
                          sensor_data |-> u.sensor_data]
          /\ tick' = [tick EXCEPT !.step_count = @ + 1]
          /\ UNCHANGED <<now, network, plcs, scada, hist, sim>>

NextSensors == InitializeSensors \/ UpdateAllSensors

SpecSensors == InitSensors /\ [][NextSensors]_vars

(***************************************************************************)
(* SpecPlant: the loop thread on the simulator as constructed, statement   *)
(* by statement, with the sensor table and the topology as state.  The     *)
(* loop thread is sim.loops[1]: pc is the statement it executes next,      *)
(* step_count, sensor_data and plc_outputs are its local variables, and    *)
(* done lists the statements of the current iteration that have returned,  *)
(* each with the sensor_data it was given.                                 *)
(***************************************************************************)
\* (a variant that runs the controllers before the physics)
next_statement_plcs_first(pc, step_count) ==
    CASE pc = "update_all_sensors" -> "execute_all_plcs"
      [] pc = "execute_all_plcs" -> "simulate_step"
      [] pc = "simulate_step" -> "update"
      [] pc = "update" -> "store_simulation_data"
      [] pc = "store_simulation_data" ->
           IF step_count % 10 = 0 THEN "emit" ELSE "sleep"
      [] pc = "emit" -> "sleep"
      [] pc = "sleep" -> "update_all_sensors"

\* simulation_loop, lines 102-135: the statement that follows pc
next_statement(pc, step_count) ==
    CASE pc = "update_all_sensors" -> "simulate_step"
      [] pc = "simulate_step" -> "execute_all_plcs"
      [] pc = "execute_all_plcs" -> "update"
      [] pc = "update" -> "store_simulation_data"
      [] pc = "store_simulation_data" ->
           IF step_count % 10 = 0 THEN "emit" ELSE "sleep"
      [] pc = "emit" -> "sleep"
      [] pc = "sleep" -> "update_all_sensors"

PlantLoop ==
    [pc |-> "update_all_sensors", step_count |-> 0,
     sensor_data |-> [vals |-> EmptyDict, bad |-> {}, draw |-> 0],
     done |-> <<>>]

\* the loop thread after the statement at its pc has returned, having been
\* given the sensor_data given
Returns(th, given) ==
    [th EXCEPT !.pc = next_statement(th.pc, th.step_count),
               !.done = Append(@, [statement |-> th.pc, given |-> given])]

\* time.time() during the run, in quarter periods since the epoch
PlantClock == 130000

\* the draws of one call of update_all_sensors, the same for every sensor:
\* no noise, or noise downwards; no leak reading
PlantDraws(tbl) ==
    {[sensor_id \in DOMAIN tbl |-> dr] :
        dr \in {[gauss |-> 0, random |-> 500], [gauss |-> 0 - 1, random |-> 900]}}

\* the draws of one call of simulate_step: no noise at any node
PlantNoise(net) == {[k \in DOMAIN net.nodes |-> [dp |-> 0, dt |-> 0]]}

\* GasPipelineSimulator.__init__ and start_simulation
InitPlant ==
    /\ now = 0
    /\ network = load_gaslib_network
    /\ sensors = sensor_table(NoSensors, network)
    /\ plcs = initialize_plcs(<<>>, network, 0)
    /\ ret = NoRet
    /\ scada = NoScada
    /\ tick = NoTick
    /\ hist = NoHist
    /\ sim = [NoSim EXCEPT !.simulation_running = TRUE, !.simulation_thread = 1,
                           !.loops = <<PlantLoop>>]

\* lines 102-105
PlantUpdateAllSensors ==
    /\ sim.loops[1].pc = "update_all_sensors"
    /\ sim.loops[1].step_count < MaxPlantSteps
    /\ \E draws \in PlantDraws(sensors) :
       \E u \in {update_all_sensors(sensors, network, PlantClock, draws)} :
          /\ sensors' = u.sensors
          /\ sim' = [sim EXCEPT !.loops[1] =
                       Returns([@ EXCEPT !.step_count = @ + 1,
                                         !.sensor_data = u.sensor_data,
                                         !.done = <<>>], u.sensor_data)]
    /\ UNCHANGED <<now, network, plcs, ret, scada, tick, hist>>

\* line 108.  ret keeps the topology the call found and the sensor_data it
\* was given
PlantSimulateStep ==
    /\ sim.loops[1].pc = "simulate_step"
    /\ \E noise \in PlantNoise(network) :
       \E ph \in {simulate_step(network, sim.loops[1].sensor_data, noise)} :
          /\ network' = ph.network
          /\ ret' = [NoRet EXCEPT !.call = "simulate_step", !.ran = TRUE,
                                  !.faulted = ph.raised, !.at = now]
                      @@ [before |-> network,
                          sensor_data |-> sim.loops[1].sensor_data]
    /\ sim' = [sim EXCEPT !.loops[1] = Returns(@, @.sensor_data)]
    /\ UNCHANGED <<now, plcs, scada, tick, hist, sensors>>

\* line 111
PlantExecuteAllPlcs ==
    /\ sim.loops[1].pc = "execute_all_plcs"
    /\ \E pass \in {execute_all_plcs(plcs, sim.loops[1].sensor_data, now)} :
          /\ plcs' = pass.plcs
          /\ tick' = [tick EXCEPT !.step_count = sim.loops[1].step_count,
                                  !.at = now, !.plc_outputs = pass.all_outputs,
                                  !.calls = pass.calls, !.updated = FALSE]
    /\ sim' = [sim EXCEPT !.loops[1] = Returns(@, @.sensor_data)]
    /\ UNCHANGED <<now, network, ret, scada, hist, sensors>>

\* line 114
PlantScadaUpdate ==
    /\ sim.loops[1].pc = "update"
    /\ \E u \in {update(scada, plcs)} :
          /\ scada' = u.scada
          /\ tick' = [tick EXCEPT !.updated = TRUE, !.scada_data = u.result]
    /\ sim' = [sim EXCEPT !.loops[1] = Returns(@, @.sensor_data)]
    /\ UNCHANGED <<now, network, plcs, ret, hist, sensors>>

\* lines 117-132: store_simulation_data, and socketio.emit on every tenth
\* iteration; neither changes the simulator
PlantPublish ==
    /\ sim.loops[1].pc \in {"store_simulation_data", "emit"}
    /\ sim' = [sim EXCEPT !.loops[1] = Returns(@, @.sensor_data)]
    /\ UNCHANGED <<now, network, plcs, ret, scada, tick, hist, sensors>>

\* line 135: time.sleep(0.1) has returned
PlantSleep ==
    /\ sim.loops[1].pc = "sleep"
    /\ now' = now + ScanTime
    /\ sim' = [sim EXCEPT !.loops[1].pc = next_statement(@, 0)]
    /\ UNCHANGED <<network, plcs, ret, scada, tick, hist, sensors>>

NextPlant ==
    \/ PlantUpdateAllSensors
    \/ PlantSimulateStep
    \/ PlantExecuteAllPlcs
    \/ PlantScadaUpdate
    \/ PlantPublish
    \/ PlantSleep

SpecPlant == InitPlant /\ [][NextPlant]_vars

(***************************************************************************)
(* One Safety Monitoring controller scanned over readings on both sides of *)
(* the thresholds of execute_logic (10, 75, 85), alone and with the three  *)
(* detectors, and over a reading whose pressure is not a number.           *)
(***************************************************************************)
SafetyReading(n, pressure, gas_leak, fire_detector, emergency_stop, bad) ==
    [vals |-> (<<"pressure", n>> :> pressure) @@ (<<"gas_leak", n>> :> gas_leak)
              @@ (<<"fire_detector", n>> :> fire_detector)
              @@ (<<"emergency_stop", n>> :> emergency_stop),
     bad |-> bad]

SafetySensorData(n) ==
    {[vals |-> EmptyDict, bad |-> {}]}
    \cup {SafetyReading(n, p, FALSE, FALSE, FALSE, {}) : p \in {9, 10, 75, 76, 85, 86}}
    \cup {SafetyReading(n, p, TRUE, FALSE, FALSE, {}) : p \in {50, 76}}
    \cup {SafetyReading(n, p, g, TRUE, FALSE, {}) : p \in {50, 86}, g \in BOOLEAN}
    \cup {SafetyReading(n, 50, FALSE, FALSE, TRUE, {}),
          SafetyReading(n, 50, FALSE, FALSE, FALSE, {<<"pressure", n>>}),
          SafetyReading(n, 50, TRUE, FALSE, FALSE, {<<"pressure", n>>})}

InitSafety ==
    /\ now = 0
    /\ network = NoNetwork
    /\ plcs = <<SafetyMonitoringPLC(PlcId("SAFETY_MONITORING", "N1"), "N1", 0)>>
    /\ ret = NoRet
    /\ scada = NoScada
    /\ tick = NoTick
    /\ hist = NoHist
    /\ sensors = NoSensors
    /\ sim = NoSim

SafetyScan ==
    \E t \in ShortCallTimes(now), sd \in SafetySensorData("N1") :
        ScanCall(1, t, sd, MaxSafetyAlarms)

NextSafety == SafetyScan

SpecSafety == InitSafety /\ [][NextSafety]_vars

(***************************************************************************)
(* The timer methods of one controller, called by name with presets that   *)
(* differ from call to call, at instants of a non-decreasing clock.        *)
(* hist.last_start observes the instant the timer TimerNames[1] was        *)
(* started (first update_timer) or last reset.                             *)
(***************************************************************************)
TimerNames == <<"T1", "T2">>

\* presets passed to update_timer, in tenths of a second
TimerPresets == {1, 3}

InitTimer ==
    /\ now = 0
    /\ network = NoNetwork
    /\ plcs = <<BasePLC(PlcId("SAFETY_MONITORING", "N1"), "N1", "SAFETY_MONITORING", 0)>>
    /\ ret = NoRet
    /\ scada = NoScada
    /\ tick = NoTick
    /\ hist = NoHist
    /\ sensors = NoSensors
    /\ sim = NoSim

\* what a call of a timer method does to the observed start of TimerNames[1]
ObserveTimer(h, started, timer_name, t) ==
    IF started /\ timer_name = TimerNames[1]
    THEN [h EXCEPT !.started = TRUE, !.last_start = t]
    ELSE h

UpdateTimer ==
    \E t \in ShortCallTimes(now), k \in DOMAIN TimerNames, preset_time \in TimerPresets :
    \E r \in {update_timer(plcs[1], TimerNames[k], preset_time, t)} :
        /\ plcs' = [plcs EXCEPT ![1] = r.plc]
        /\ ret' = [NoRet EXCEPT !.call = "update_timer", !.plc_id = plcs[1].plc_id,
                                !.at = t]
                  @@ [timer_name |-> TimerNames[k], preset_time |-> preset_time,
                      done |-> r.done]
        /\ now' = t
        /\ hist' = ObserveTimer(hist, TimerNames[k] \notin DOMAIN plcs[1].timers,
                                TimerNames[k], t)
        /\ UNCHANGED <<network, scada, tick, sim, sensors>>

ResetTimer ==
    \E t \in ShortCallTimes(now), k \in DOMAIN TimerNames :
        /\ plcs' = [plcs EXCEPT ![1] = reset_timer(@, TimerNames[k], t)]
        /\ ret' = [NoRet EXCEPT !.call = "reset_timer", !.plc_id = plcs[1].plc_id,
                                !.at = t]
                  @@ [timer_name |-> TimerNames[k]]
        /\ now' = t
        /\ hist' = ObserveTimer(hist, TimerNames[k] \in DOMAIN plcs[1].timers,
                                TimerNames[k], t)
        /\ UNCHANGED <<network, scada, tick, sim, sensors>>

NextTimer == UpdateTimer \/ ResetTimer

SpecTimer == InitTimer /\ [][NextTimer]_vars

(***************************************************************************)
(* base_plc.py, lines 119-129: counters                                    *)
(***************************************************************************)
increment_counter(plc, counter_name, max_count) ==
    LET p1 == IF counter_name \notin DOMAIN plc.counters
              THEN [plc EXCEPT !.counters = Put(@, counter_name, 0)]
              ELSE plc
        count == Min(p1.counters[counter_name] + 1, max_count)
    IN [plc |-> [p1 EXCEPT !.counters[counter_name] = count], count |-> count]

reset_counter(plc, counter_name) ==
    [plc EXCEPT !.counters = Put(@, counter_name, 0)]

(***************************************************************************)
(* The counter methods of one controller, called by name with max_count    *)
(* arguments that differ from call to call.                                *)
(***************************************************************************)
CounterNames == <<"C1", "C2">>

\* the max_count arguments passed to increment_counter
CounterMaxima == {1, 2, 3, 5}

InitCounter ==
    /\ now = 0
    /\ network = NoNetwork
    /\ plcs = <<BasePLC(PlcId("SAFETY_MONITORING", "N1"), "N1", "SAFETY_MONITORING", 0)>>
    /\ ret = NoRet
    /\ scada = NoScada
    /\ tick = NoTick
    /\ hist = NoHist
    /\ sensors = NoSensors
    /\ sim = NoSim

IncrementCounter ==
    \E k \in DOMAIN CounterNames, max_count \in CounterMaxima :
    \E r \in {increment_counter(plcs[1], CounterNames[k], max_count)} :
        /\ plcs' = [plcs EXCEPT ![1] = r.plc]
        /\ ret' = [NoRet EXCEPT !.call = "increment_counter",
                                !.plc_id = plcs[1].plc_id, !.at = now]
                  @@ [counter_name |-> CounterNames[k], max_count |-> max_count,
                      count |-> r.count]
        /\ UNCHANGED <<now, network, scada, tick, hist, sim, sensors>>

ResetCounter ==
    \E k \in DOMAIN CounterNames :
        /\ plcs' = [plcs EXCEPT ![1] = reset_counter(@, CounterNames[k])]
        /\ ret' = [NoRet EXCEPT !.call = "reset_counter",
                                !.plc_id = plcs[1].plc_id, !.at = now]
                  @@ [counter_name |-> CounterNames[k]]
        /\ UNCHANGED <<now, network, scada, tick, hist, sim, sensors>>

NextCounter == IncrementCounter \/ ResetCounter

SpecCounter == InitCounter /\ [][NextCounter]_vars

(***************************************************************************)
(* One Valve Control controller scanned over every combination of the two  *)
(* commands and the two limit switches, with the position feedback below,  *)
(* inside and above the tolerance band around the default setpoint (50),   *)
(* and over a reading whose feedback is not a number.                      *)
(***************************************************************************)
LimitSensorData(n) ==
    {ValveReading(n, fb, open, close, ls_open, ls_closed, 0, {}) :
        fb \in {47, 50, 53}, open \in BOOLEAN, close \in BOOLEAN,
        ls_open \in BOOLEAN, ls_closed \in BOOLEAN}
    \cup {ValveReading(n, 50, FALSE, FALSE, TRUE, FALSE, 0, {<<"position_feedback", n>>})}

LimitScan ==
    \E t \in ShortCallTimes(now), sd \in LimitSensorData("N1") :
        ScanCall(1, t, sd, MaxAlarms)

NextLimit == LimitScan

SpecLimit == InitValve /\ [][NextLimit]_vars

(***************************************************************************)
(* SpecStatus: the fleet of the built-in network through iterations of     *)
(* simulation_loop one scan period apart, with readings that raise HIGH    *)
(* and CRITICAL alarms and a reading that makes the hooks of the Safety    *)
(* Monitoring controller at Junction_4 raise, and through calls of         *)
(* execute_all_plcs between two iterations, within the same scan period.   *)
(***************************************************************************)
StatusSensorData(net) ==
    {[vals |-> QuietVals(net), bad |-> {}, draw |-> 0],
     [vals |-> Put(QuietVals(net), <<"gas_leak", "Junction_1">>, TRUE),
      bad |-> {}, draw |-> 0],
     [vals |-> Put(QuietVals(net), <<"fire_detector", "Junction_4">>, TRUE),
      bad |-> {}, draw |-> 0],
     [vals |-> QuietVals(net), bad |-> {<<"pressure", "Junction_4">>}, draw |-> 0]}

StatusAlarmsWithin(fleet) ==
    \A k \in DOMAIN fleet : Len(fleet[k].alarms) <= MaxStatusAlarms

\* one iteration of simulation_loop, main.py lines 102-135, one scan period
\* after the one before
StatusTick ==
    /\ tick.step_count < MaxStatusSteps
    /\ \E sd \in StatusSensorData(network) :
       \E t \in {tick.at + ScanTime} :
       \E pass \in {execute_all_plcs(plcs, sd, t)} :
       \E u \in {update(scada, pass.plcs)} :
           /\ StatusAlarmsWithin(pass.plcs)
           /\ now' = t
           /\ plcs' = pass.plcs
           /\ scada' = u.scada
           /\ tick' = [step_count |-> tick.step_count + 1, at |-> t,
                       plc_outputs |-> pass.all_outputs, calls |-> pass.calls,
                       updated |-> TRUE, scada_data |-> u.result]
           /\ UNCHANGED <<network, ret, hist, sim, sensors>>

\* PLCManager.execute_all_plcs called again within the scan period of the
\* last iteration
StatusPass ==
    /\ tick.step_count > 0
    /\ \E sd \in StatusSensorData(network) :
       \E pass \in {execute_all_plcs(plcs, sd, now)} :
           /\ StatusAlarmsWithin(pass.plcs)
           /\ pass.plcs # plcs
           /\ plcs' = pass.plcs
           /\ tick' = [tick EXCEPT !.plc_outputs = pass.all_outputs,
                                   !.calls = pass.calls, !.updated = FALSE]
           /\ UNCHANGED <<now, network, ret, scada, hist, sim, sensors>>

NextStatus == StatusTick \/ StatusPass

SpecStatus == Init /\ [][NextStatus]_vars

(***************************************************************************)
(* One Pressure Control controller scanned over pressures on both sides of *)
(* its two limits (5 and 80 bar), over a manual setpoint, and over         *)
(* readings whose pressure or setpoint is not a number.                    *)
(***************************************************************************)
PressureReading(n, pressure, b) ==
    [vals |-> (<<"pressure", n>> :> pressure), bad |-> b]

PressureSensorData(n) ==
    {[vals |-> EmptyDict, bad |-> {}]}
    \cup {PressureReading(n, p, {}) : p \in {4, 5, 80, 81}}
    \cup {[vals |-> (<<"pressure", n>> :> 49) @@ (<<"manual_setpoint", n>> :> 60),
           bad |-> {}],
          PressureReading(n, 50, {<<"pressure", n>>}),
          [vals |-> (<<"pressure", n>> :> 81) @@ (<<"manual_setpoint", n>> :> 50),
           bad |-> {<<"manual_setpoint", n>>}]}

InitPressure ==
    /\ now = 0
    /\ network = NoNetwork
    /\ plcs = <<PressureControlPLC(PlcId("PRESSURE_CONTROL", "N1"), "N1", 0)>>
    /\ ret = NoRet
    /\ scada = NoScada
    /\ tick = NoTick
    /\ hist = NoHist
    /\ sensors = NoSensors
    /\ sim = NoSim

PressureScan ==
    \E t \in ShortCallTimes(now), sd \in PressureSensorData("N1") :
        ScanCall(1, t, sd, MaxAlarms)

NextPressure == PressureScan

SpecPressure == InitPressure /\ [][NextPressure]_vars

(***************************************************************************)
(* Claims                                                                  *)
(***************************************************************************)
\* the scan that just returned completed (hooks ran, none raised)
ScanCompleted(r) == r.ran /\ ~r.faulted

EsdActiveOutput(plc) == get_output(plc, "ESD_ACTIVE", FALSE)

\* C1: once a completed scan of the Emergency Shutdown controller saw any
\* trigger true, its ESD_ACTIVE output is true after that scan, and no later
\* step (whatever the triggers) returns ESD_ACTIVE to false.
C1_EsdLatches ==
    [][ /\ (ScanCompleted(ret') /\ ESD_should_shutdown(plcs'[1]))
            => EsdActiveOutput(plcs'[1])
        /\ EsdActiveOutput(plcs[1]) => EsdActiveOutput(plcs'[1]) ]_vars

\* C1 witness: a completed scan with every trigger false left ESD_ACTIVE true
C1_Witness ==
    /\ ScanCompleted(ret)
    /\ ~ESD_should_shutdown(plcs[1])
    /\ EsdActiveOutput(plcs[1])

\* C2: the hooks run only when at least scan_period has elapsed since
\* last_scan; last_scan never decreases, and two successive values of it
\* (two consecutive completed scans) are at least scan_period apart.
C2_ScanPeriod ==
    [][ /\ ret'.ran => (ret'.at - ret'.prev_last_scan) >= ScanTime
        /\ \A i \in 1..Len(plcs) :
              /\ plcs'[i].last_scan >= plcs[i].last_scan
              /\ plcs'[i].last_scan # plcs[i].last_scan
                    => plcs'[i].last_scan - plcs[i].last_scan >= plcs[i].scan_time
      ]_vars

\* C2 witness: a completed scan exactly one scan period after an earlier
\* completed scan
C2_Witness ==
    /\ ScanCompleted(ret)
    /\ ret.prev_last_scan > 0
    /\ ret.at - ret.prev_last_scan = ScanTime

HasAlarm(plc, alarm_id) ==
    \E k \in 1..Len(plc.alarms) : plc.alarms[k].alarm_id = alarm_id

\* C3: the compressor makes at most max_start_attempts stopped-to-running
\* transitions in a row with less than 60 s between each and the one before;
\* start_attempts stays in 0..max_start_attempts; and after a completed scan
\* 60 s or more after the most recent start, start_attempts is 0.
C3_AntiCycling ==
    /\ hist.burst <= plcs[1].max_start_attempts
    /\ plcs[1].start_attempts \in 0..plcs[1].max_start_attempts
    /\ (ScanCompleted(ret) /\ hist.started
            /\ ret.at - hist.last_start >= COMP_StartDelay)
         => plcs[1].start_attempts = 0

\* C3 witness: three starts in a row, a fourth refused, and the counter reset
\* by a scan 60 s after the last start
C3_Witness ==
    /\ hist.burst = 3
    /\ HasAlarm(plcs[1], "MAX_START_ATTEMPTS")
    /\ ScanCompleted(ret)
    /\ ret.at - hist.last_start >= COMP_StartDelay
    /\ plcs[1].start_attempts = 0

\* the inputs of the valve controller demand motion: torque within the limit,
\* and a command not stopped by its limit switch or a position error outside
\* the tolerance band
MotionDemanded(plc) ==
    /\ ~(get_input(plc, "VALVE_TORQUE", 0) > VALVE_TorqueLimit)
    /\ \/ get_input(plc, "OPEN_COMMAND", FALSE) /\ ~get_input(plc, "FULLY_OPEN_LS", FALSE)
       \/ get_input(plc, "CLOSE_COMMAND", FALSE) /\ ~get_input(plc, "FULLY_CLOSED_LS", FALSE)
       \/ Abs(get_input(plc, "POSITION_SETPOINT", 50)
              - get_input(plc, "POSITION_FEEDBACK", 50)) > 2

\* at clock value t the travel timer of plc has run for travel time + 10 s
TravelElapsed(plc, t) ==
    /\ "TRAVEL_TIMER" \in DOMAIN plc.timers
    /\ t - plc.timers["TRAVEL_TIMER"].start_time
          >= plc.valve_travel_time + VALVE_TravelMargin

ValveStopped(plc) ==
    /\ get_output(plc, "VALVE_OPEN", TRUE) = FALSE
    /\ get_output(plc, "VALVE_CLOSE", TRUE) = FALSE
    /\ get_output(plc, "VALVE_MOVING", TRUE) = FALSE

\* C4: a completed scan of the valve controller in which motion is demanded
\* and the travel timer has run for valve_travel_time + 10 s or more appends a
\* VALVE_TRAVEL_TIME alarm and leaves VALVE_OPEN, VALVE_CLOSE and VALVE_MOVING
\* all false.
C4_TravelWatchdog ==
    [][ (ScanCompleted(ret') /\ MotionDemanded(plcs'[1])
            /\ TravelElapsed(plcs[1], ret'.at))
        => /\ plcs'[1].alarms =
                Append(plcs[1].alarms, PLCAlarm("VALVE_TRAVEL_TIME", "MEDIUM"))
           /\ ValveStopped(plcs'[1]) ]_vars

\* C4 witness: the scan that just completed demanded motion, found the travel
\* time exceeded, raised the alarm and stopped the valve
C4_Witness ==
    /\ ScanCompleted(ret)
    /\ MotionDemanded(plcs[1])
    /\ TravelElapsed(plcs[1], ret.at)
    /\ Len(plcs[1].alarms) > 0
    /\ plcs[1].alarms[Len(plcs[1].alarms)].alarm_id = "VALVE_TRAVEL_TIME"
    /\ ValveStopped(plcs[1])

\* alarm lists, for the properties
HasSeverity(alarms, severity) ==
    \E k \in DOMAIN alarms : alarms[k].severity = severity

IsSevere(alarm) == alarm.severity \in {"HIGH", "CRITICAL"}

\* the status the classification rule gives an alarm list
StatusLevel(alarms) ==
    IF HasSeverity(alarms, "CRITICAL") THEN "CRITICAL"
    ELSE IF \E i, j, k \in DOMAIN alarms :
               /\ i < j /\ j < k
               /\ alarms[i].severity = "HIGH" /\ alarms[j].severity = "HIGH"
               /\ alarms[k].severity = "HIGH"
         THEN "ALARM"
    ELSE IF HasSeverity(alarms, "HIGH") THEN "WARNING"
    ELSE "NORMAL"

\* C5: the status evaluate_system_status returns for an alarm list is
\* CRITICAL if the list holds a CRITICAL alarm, otherwise ALARM if it holds
\* more than two HIGH alarms, otherwise WARNING if it holds a HIGH alarm,
\* otherwise NORMAL; and it is the status of the list with every LOW and
\* MEDIUM alarm removed.
C5_StatusClassification ==
    ret.ran =>
        /\ ret.outputs = StatusLevel(scada.alarms)
        /\ ret.outputs = StatusLevel(SelectSeq(scada.alarms, IsSevere))

\* a full list with HIGH alarms and a MEDIUM one before a last, CRITICAL,
\* alarm has been classified
C5_Witness ==
    /\ ret.ran
    /\ Len(scada.alarms) = MaxScadaAlarms
    /\ CountSeverity(scada.alarms, "HIGH") >= 2
    /\ HasSeverity(scada.alarms, "MEDIUM")
    /\ scada.alarms[Len(scada.alarms)].severity = "CRITICAL"
    /\ ret.outputs = "CRITICAL"

\* controllers of a kind in the fleet
OfKind(fleet, plc_type) == {k \in DOMAIN fleet : fleet[k].plc_type = plc_type}

\* C9: once the fleet has been initialized over a topology of eight or more
\* nodes, exactly one controller of kind EMERGENCY_SHUTDOWN exists.
C9_OneEmergencyShutdown ==
    (plcs # <<>> /\ Len(network.nodes) >= 8) =>
        Cardinality(OfKind(plcs, "EMERGENCY_SHUTDOWN")) = 1

\* a fleet initialized over eight nodes, the first of them a junction, holds
\* its Emergency Shutdown controller
C9_Witness ==
    /\ plcs # <<>>
    /\ Len(network.nodes) >= 8
    /\ network.nodes[1].type = "junction"
    /\ OfKind(plcs, "EMERGENCY_SHUTDOWN") # {}

\* C6: the status SCADASystem.update returns for an iteration of the loop is
\* the classification of the alarms in the controllers' logs as they stand
\* after that iteration's pass over the fleet.
C6_StatusIsCurrent ==
    tick.updated =>
        tick.scada_data.system_status = StatusLevel(get_all_alarms(plcs))

\* C7: when a hook raises during execute_scan, the caller gets the empty
\* output map and no exception, and the controller's alarm log has grown by
\* what the hooks logged before raising followed by exactly one scan-error
\* alarm, of HIGH severity.
C7_ScanFaultContained ==
    [][ret'.faulted =>
          LET old == plcs[1].alarms
              new == plcs'[1].alarms
          IN /\ ~ret'.escaped
             /\ ret'.outputs = EmptyDict
             /\ Len(new) > Len(old)
             /\ SubSeq(new, 1, Len(old)) = old
             /\ new[Len(new)] = PLCAlarm("SCAN_ERROR", "HIGH")
             /\ Cardinality({k \in (Len(old) + 1)..Len(new) :
                                new[k].alarm_id = "SCAN_ERROR"}) = 1]_vars

\* a scan of the valve controller logged a high-torque alarm, then faulted
\* and left its scan-error alarm last in the log
C7_Witness ==
    /\ ret.faulted
    /\ ret.outputs = EmptyDict
    /\ Len(plcs[1].alarms) >= 2
    /\ plcs[1].alarms[Len(plcs[1].alarms)].alarm_id = "SCAN_ERROR"
    /\ plcs[1].alarms[Len(plcs[1].alarms) - 1].alarm_id = "HIGH_TORQUE"

\* the ids of the fleet, in its iteration order
FleetIds(fleet) == [k \in DOMAIN fleet |-> fleet[k].plc_id]

\* C8: after a pass of execute_all_plcs, execute_scan has been invoked once
\* on every controller, in the fleet's order; the mapping returned has an
\* entry for exactly the fleet's controller ids, and the entry of a
\* controller that did not complete a scan in this pass is the empty map.
C8_EveryControllerScanned ==
    tick.calls # <<>> =>
        /\ tick.calls = FleetIds(plcs)
        /\ DOMAIN tick.plc_outputs = {plcs[k].plc_id : k \in DOMAIN plcs}
        /\ \A k \in DOMAIN plcs :
              plcs[k].last_scan # now => tick.plc_outputs[plcs[k].plc_id] = EmptyDict

\* a pass in which the first controller faulted and a later one completed
\* its scan
C8_Witness ==
    /\ tick.calls # <<>>
    /\ plcs[1].alarms # <<>>
    /\ plcs[1].alarms[Len(plcs[1].alarms)].alarm_id = "SCAN_ERROR"
    /\ plcs[1].last_scan # now
    /\ tick.plc_outputs[plcs[1].plc_id] = EmptyDict
    /\ \E k \in DOMAIN plcs :
          /\ k > 1
          /\ plcs[k].last_scan = now
          /\ tick.plc_outputs[plcs[k].plc_id] # EmptyDict

\* the controller kinds bound to a node
KindsAt(fleet, node_id) ==
    {fleet[k].plc_type : k \in {j \in DOMAIN fleet : fleet[j].node_id = node_id}}

RoleKind(node_type) ==
    CASE node_type = "source" -> "PRESSURE_CONTROL"
      [] node_type = "compressor" -> "COMPRESSOR_MANAGEMENT"
      [] node_type = "sink" -> "FLOW_REGULATION"

\* C10: once the fleet has been initialized over a topology of eight or
\* more nodes, every source node is bound to a PRESSURE_CONTROL controller,
\* every compressor node to a COMPRESSOR_MANAGEMENT controller and every
\* sink node to a FLOW_REGULATION controller.
C10_RoleKinds ==
    (plcs # <<>> /\ Len(network.nodes) >= 8) =>
        \A k \in DOMAIN network.nodes :
            network.nodes[k].type \in {"source", "compressor", "sink"} =>
                RoleKind(network.nodes[k].type) \in KindsAt(plcs, network.nodes[k].id)

\* C11: once the fleet has been initialized over a non-empty topology, of
\* eight nodes or of fewer, at least one controller of kind
\* EMERGENCY_SHUTDOWN exists.
C11_SomeEmergencyShutdown ==
    plcs # <<>> => OfKind(plcs, "EMERGENCY_SHUTDOWN") # {}

\* a call of send_command_to_plc has just returned r
CommandReturned(r) == r.call = "send_command_to_plc"

\* the controller at position k has executed no scan since the call whose
\* return is r: a completed scan moves last_scan, a faulted one logs SCAN_ERROR
NoScanSince(r, fleet, k) ==
    r.seen[k] = <<fleet[k].last_scan, Len(fleet[k].alarms)>>

\* C12: when a command {address: value} has been accepted by an existing
\* controller, the first scan that controller completes afterwards runs its
\* logic with value as the input at address; with EMERGENCY_BUTTON true on
\* the emergency shutdown controller, that scan leaves ESD_ACTIVE true.
C12_CommandReachesNextScan ==
    [][ \A k \in DOMAIN plcs :
          (/\ CommandReturned(ret) /\ ret' = ret
           /\ ret.result.success
           /\ plcs[k].plc_id = ret.plc_id
           /\ NoScanSince(ret, plcs, k)
           /\ plcs'[k].last_scan # plcs[k].last_scan)
          => /\ \A a \in DOMAIN ret.command :
                    /\ a \in DOMAIN plcs'[k].inputs
                    /\ plcs'[k].inputs[a].value = ret.command[a]
             /\ (plcs[k].plc_type = "EMERGENCY_SHUTDOWN"
                   /\ "EMERGENCY_BUTTON" \in DOMAIN ret.command)
                  => EsdActiveOutput(plcs'[k]) ]_vars

\* C13: a call of send_command_to_plc with an id that is no controller's
\* returns success false with a 'not found' error and leaves every
\* controller (inputs, outputs, alarm log) as it was.
C13_UnknownControllerRejected ==
    [][ (/\ CommandReturned(ret') /\ ret' # ret
         /\ \A k \in DOMAIN plcs : plcs[k].plc_id # ret'.plc_id)
        => /\ ~ret'.result.success
           /\ ret'.result.error = "not found"
           /\ plcs' = plcs ]_vars

\* C13 witness: a rejected command for an unknown id, after the fleet has
\* been scanned and a controller holds an alarm
C13_Witness ==
    /\ CommandReturned(ret)
    /\ \A k \in DOMAIN plcs : plcs[k].plc_id # ret.plc_id
    /\ ~ret.result.success
    /\ tick.step_count > 0
    /\ \E k \in DOMAIN plcs : plcs[k].alarms # <<>>

\* old without the alarms at the positions in removed, in old's order
Without(old, removed) ==
    LET keep(k) == k \notin removed
        idx == SelectSeq([k \in DOMAIN old |-> k], keep)
    IN [j \in DOMAIN idx |-> old[idx[j]]]

\* the same alarm, acknowledged now if it was before
SameAlarm(a, b) ==
    /\ a.alarm_id = b.alarm_id /\ a.severity = b.severity
    /\ a.acknowledged => b.acknowledged

\* C18: whichever of execute_scan, add_alarm, acknowledge_alarm and
\* clear_acknowledged_alarms is called, the alarms that leave the log leave
\* it in a call of clear_acknowledged_alarms and were acknowledged; all
\* others stay, in their order, at the head of the log; a scan changes none
\* of them and only appends.
C18_AlarmRetention ==
    [][ LET old == plcs[1].alarms
            new == plcs'[1].alarms
        IN \E removed \in SUBSET DOMAIN old :
             LET kept == Without(old, removed) IN
             /\ removed # {} => ret'.call = "clear_acknowledged_alarms"
             /\ \A k \in removed : old[k].acknowledged
             /\ Len(new) >= Len(kept)
             /\ \A j \in DOMAIN kept : SameAlarm(kept[j], new[j])
             /\ ret'.call = "execute_scan" =>
                    \A j \in DOMAIN kept : kept[j] = new[j]
             /\ ret'.call = "clear_acknowledged_alarms" =>
                    /\ Len(new) = Len(kept)
                    /\ \A k \in DOMAIN old : old[k].acknowledged => k \in removed
      ]_vars

\* C18 witness: clear_acknowledged_alarms has just removed an acknowledged
\* alarm from between unacknowledged ones logged by a scan and by add_alarm
C18_Witness ==
    /\ ret.call = "clear_acknowledged_alarms"
    /\ Len(plcs[1].alarms) = 2
    /\ plcs[1].alarms[1].alarm_id = "EMERGENCY"
    /\ plcs[1].alarms[2].alarm_id = "OPERATOR_NOTE"
    /\ now > 0

\* the loop threads that have not ended
LiveLoops == {i \in DOMAIN sim.loops : sim.loops[i].pc # "done"}

\* everything but the bookkeeping of the request threads is left as it was
LifeUnchanged ==
    /\ sim'.simulation_running = sim.simulation_running
    /\ sim'.simulation_thread = sim.simulation_thread
    /\ sim'.loops = sim.loops
    /\ UNCHANGED <<now, network, plcs, scada, tick>>

\* C14: a start request that finds the simulation running returns false
\* and creates no loop thread; a stop request that finds it stopped returns
\* false and changes no state.
C14_StartStopIdempotent ==
    [][ \A a \in DOMAIN sim.api :
          /\ (/\ sim.api[a].pc = "idle" /\ sim'.api[a] # sim.api[a]
              /\ sim'.api[a].call = "start_simulation"
              /\ sim.simulation_running)
             => /\ sim'.api[a].pc = "idle" /\ ~sim'.api[a].result
                /\ LifeUnchanged
          /\ (/\ sim.api[a].pc = "idle" /\ sim'.api[a] # sim.api[a]
              /\ sim'.api[a].call = "stop_simulation"
              /\ ~sim.simulation_running)
             => /\ sim'.api[a].pc = "idle" /\ ~sim'.api[a].result
                /\ LifeUnchanged ]_vars

\* C14 witness: with the one loop thread past an iteration, a start request
\* has been refused
C14_Witness ==
    /\ sim.api[1].call = "start_simulation" /\ sim.api[1].pc = "idle"
    /\ ~sim.api[1].result
    /\ Len(sim.loops) = 1 /\ sim.loops[1].last = "stored"
    /\ tick.updated

\* C16: whatever the interleaving of the start and stop requests, at most
\* one loop thread is inside the body of an iteration at any time.
C16_SingleLoopThread ==
    Cardinality({i \in DOMAIN sim.loops : sim.loops[i].pc = "try"}) <= 1

\* C17: once the running flag is cleared, a loop thread begins no
\* iteration unless the flag is set again, and, if no start request sets it
\* again, every loop thread ends.
C17_StopTerminatesLoop ==
    /\ [][ \A i \in DOMAIN sim.loops :
              (sim.loops[i].pc # "try" /\ sim'.loops[i].pc = "try")
                 => sim.simulation_running ]_vars
    /\ (~sim.simulation_running) ~> (sim.simulation_running \/ LiveLoops = {})

\* C17 witness: a stop request cleared the flag while the loop thread was in
\* an iteration, and joined the thread after it had ended
C17_Witness ==
    /\ ~sim.simulation_running
    /\ sim.api[1].call = "stop_simulation" /\ sim.api[1].result
    /\ sim.api[1].joined
    /\ Len(sim.loops) = 1 /\ sim.loops[1].pc = "done"
    /\ sim.loops[1].last = "stored"

\* C20: a loop thread ends only at a test of the while that finds the flag
\* cleared; after an iteration in which the data could not be stored, or in
\* which an exception was raised, it begins a further iteration unless the
\* flag is cleared.
C20_LoopSurvivesFailures ==
    /\ [][ \A i \in DOMAIN sim.loops :
              (sim.loops[i].pc # "done" /\ sim'.loops[i].pc = "done")
                 => (sim.loops[i].pc = "while" /\ ~sim.simulation_running) ]_vars
    /\ \A i \in 1..MaxApiCalls :
          (/\ i \in DOMAIN sim.loops
           /\ sim.loops[i].pc \in {"sleep", "except"}
           /\ sim.loops[i].last \in {"store_failed", "raised"})
          ~> (~sim.simulation_running
              \/ (i \in DOMAIN sim.loops /\ sim.loops[i].pc = "try"))

\* C20 witness: the loop thread is in a further iteration after one whose
\* data could not be stored, later than the first pass over the controllers
C20_Witness ==
    /\ sim.simulation_running
    /\ Len(sim.loops) = 1
    /\ sim.loops[1].pc = "try"
    /\ sim.loops[1].last = "store_failed"
    /\ tick.updated
    /\ now > 0

\* C15: no command is written into a controller's inputs while the loop
\* thread is inside an iteration: every accepted command found the loop
\* thread asleep between two iterations (so never between the update_inputs
\* and the execute_logic of a scan).
C15_CommandsExcludeTick ==
    (CommandReturned(ret) /\ ret.result.success) => ret.during.pc = "sleep"

\* C19: when simulate_step takes its except branch, the topology is after
\* the step exactly what it was before it (node pressures and temperatures,
\* pipe flows and pressure drops), and the same iteration still makes the
\* pass over all controllers and updates the aggregator.
C19_PhysicsFailureLeavesTopology ==
    [][ (ret'.call = "simulate_step" /\ ret'.faulted
           /\ tick'.step_count # tick.step_count)
        => /\ network' = network
           /\ tick'.calls = FleetIds(plcs')
           /\ tick'.updated ]_vars

\* C23: a call of execute_scan on a controller that is inactive, or made
\* less than scan_time after its last scan, returns the empty map and leaves
\* the whole controller (inputs, outputs, memory, timers, counters, alarm
\* log, kind-specific state, last_scan) as it was.
C23_SkippedScanIsNoOp ==
    [][ (/\ ret'.call = "execute_scan"
         /\ \/ ~plcs[1].is_active
            \/ ret'.at - plcs[1].last_scan < plcs[1].scan_time)
        => (plcs' = plcs /\ ret'.outputs = EmptyDict /\ ~ret'.ran) ]_vars

\* a latched controller with outputs and an alarm was called again within
\* its scan period, and an inactive controller was called long after it
C23_Witness ==
    /\ ret.call = "execute_scan" /\ ~ret.ran
    /\ \/ /\ plcs[1].is_active /\ EsdActiveOutput(plcs[1])
          /\ ret.at - plcs[1].last_scan < plcs[1].scan_time
       \/ /\ ~plcs[1].is_active
          /\ ret.at - plcs[1].last_scan >= 2 * plcs[1].scan_time

\* a controller without the parts a faulted scan may change: the inputs it
\* has read, its timers and its alarm log
FaultFrame(plc) ==
    [plc EXCEPT !.inputs = EmptyDict, !.timers = EmptyDict, !.alarms = <<>>]

\* C25: a scan that faults returns the empty map and gives no output
\* address, memory register or kind-specific state variable of the
\* controller a new value, wherever in the hooks the exception is raised.
C25_FaultedScanChangesNothing ==
    [][ret'.faulted =>
          /\ ret'.outputs = EmptyDict
          /\ FaultFrame(plcs'[1]) = FaultFrame(plcs[1])]_vars

\* C26: after every scan of the Emergency Shutdown controller in which the
\* shutdown is latched, ESD_VALVE_1, ESD_VALVE_2 and MAIN_SUPPLY_VALVE are
\* false and COMPRESSOR_STOP is true, and VENT_VALVE is true only if no fire
\* was detected in that scan.
C26_ShutdownOutputs ==
    (ret.call = "execute_scan" /\ ret.ran /\ plcs[1].esd_active) =>
        /\ get_output(plcs[1], "ESD_VALVE_1", TRUE) = FALSE
        /\ get_output(plcs[1], "ESD_VALVE_2", TRUE) = FALSE
        /\ get_output(plcs[1], "MAIN_SUPPLY_VALVE", TRUE) = FALSE
        /\ get_output(plcs[1], "COMPRESSOR_STOP", FALSE) = TRUE
        /\ get_output(plcs[1], "VENT_VALVE", FALSE)
              => ~get_input(plcs[1], "FIRE_DETECTED", FALSE)

\* the alarms a step appended to the log of controller 1
NewAlarmIds(old, new) ==
    {new.alarms[k].alarm_id : k \in (Len(old.alarms) + 1)..Len(new.alarms)}

\* C27: after any scan of the Valve Control controller in which the valve
\* torque read exceeds the limit, VALVE_OPEN, VALVE_CLOSE and VALVE_MOVING
\* are all false, whatever the commands, the setpoint error and the limit
\* switches, and the scan has raised a HIGH_TORQUE alarm.
C27_TorqueOverridesMotion ==
    [][ (/\ ret'.call = "execute_scan" /\ ret'.ran
         /\ ~input_bad(plcs'[1], "VALVE_TORQUE")
         /\ get_input(plcs'[1], "VALVE_TORQUE", 0) > VALVE_TorqueLimit)
        => /\ ~get_output(plcs'[1], "VALVE_OPEN", FALSE)
           /\ ~get_output(plcs'[1], "VALVE_CLOSE", FALSE)
           /\ ~get_output(plcs'[1], "VALVE_MOVING", FALSE)
           /\ "HIGH_TORQUE" \in NewAlarmIds(plcs[1], plcs'[1]) ]_vars

\* an interlock of execute_logic, lines 73-91, is violated by the
\* (well-typed) inputs the controller holds
InterlockViolated(plc) ==
    LET ok(address) == address \in DOMAIN plc.inputs /\ ~input_bad(plc, address)
    IN \/ /\ ok("SUCTION_PRESSURE")
          /\ \/ get_input(plc, "SUCTION_PRESSURE", 40) > plc.max_suction_pressure
             \/ get_input(plc, "SUCTION_PRESSURE", 40) < plc.min_suction_pressure
       \/ /\ ok("DISCHARGE_PRESSURE")
          /\ get_input(plc, "DISCHARGE_PRESSURE", 50) > plc.max_discharge_pressure
       \/ ok("VIBRATION") /\ get_input(plc, "VIBRATION", 5) > 50
       \/ ok("OIL_TEMPERATURE") /\ get_input(plc, "OIL_TEMPERATURE", 80) > 120

\* C28: after any scan of the Compressor Management controller in which an
\* interlock is violated the compressor is not running (COMPRESSOR_RUNNING
\* and SAFETY_OK are false) and the scan has started nothing, even with
\* MANUAL_START true; and after any scan with MANUAL_STOP true the compressor
\* is not running, even with MANUAL_START true.
C28_InterlocksGateRunning ==
    [][ (ret'.call = "execute_scan" /\ ret'.ran) =>
          /\ InterlockViolated(plcs'[1]) =>
                /\ ~plcs'[1].compressor_running
                /\ ~get_output(plcs'[1], "COMPRESSOR_RUNNING", FALSE)
                /\ ~get_output(plcs'[1], "SAFETY_OK", FALSE)
          /\ get_input(plcs'[1], "MANUAL_STOP", FALSE) =>
                ~plcs'[1].compressor_running ]_vars

\* the scan of this step completed with every interlock satisfied and no
\* manual command
AutomaticScan(r, plc) ==
    /\ r.call = "execute_scan" /\ ScanCompleted(r)
    /\ ~InterlockViolated(plc)
    /\ ~get_input(plc, "MANUAL_START", FALSE)
    /\ ~get_input(plc, "MANUAL_STOP", FALSE)

\* C29: in a scan with all interlocks satisfied and no manual command, a
\* stopped compressor becomes running only if the suction pressure is at or
\* below start_pressure, a running one becomes stopped only if it is at or
\* above stop_pressure, and for a suction pressure strictly between the two
\* the running state is what it was before the scan.
C29_HysteresisBand ==
    [][ AutomaticScan(ret', plcs'[1]) =>
          LET suction_pressure == get_input(plcs'[1], "SUCTION_PRESSURE", 40)
              was == plcs[1].compressor_running
              is == plcs'[1].compressor_running
          IN /\ (~was /\ is) => suction_pressure <= plcs[1].start_pressure
             /\ (was /\ ~is) => suction_pressure >= plcs[1].stop_pressure
             /\ (/\ suction_pressure > plcs[1].start_pressure
                 /\ suction_pressure < plcs[1].stop_pressure) => (is = was) ]_vars

\* a compressor started by an earlier scan is still running after a scan
\* that read a suction pressure of 54 bar, inside the band
C29_Witness ==
    /\ AutomaticScan(ret, plcs[1])
    /\ plcs[1].compressor_running
    /\ get_input(plcs[1], "SUCTION_PRESSURE", 40) = 54
    /\ hist.started /\ hist.last_start < ret.at

\* C21: after initialize_sensors, no two sensors of the table have the same
\* physical quantity (the sensor's type) and the same location.
C21_OneSensorPerQuantityAndLocation ==
    \A a, b \in DOMAIN sensors :
        (sensors[a].type = sensors[b].type
           /\ sensors[a].location = sensors[b].location) => a = b

\* C22: the readings of update_all_sensors are determined by the topology,
\* the prior sensor values and the random draws: the call made at any other
\* wall-clock instant on the same table with the same draws returns the same
\* sensor_data and leaves the same table.
C22_SensorModelDeterministic ==
    ret.call = "update_all_sensors" =>
        \A other_time \in WallClocks :
            update_all_sensors(ret.before, network, other_time, ret.draws)
              = [sensors |-> sensors, sensor_data |-> ret.sensor_data]

\* the compressor-running output of the Compressor Management controller
\* bound to the node
CompressorRunningAt(fleet, node_id) ==
    \E k \in DOMAIN fleet :
        /\ fleet[k].plc_type = "COMPRESSOR_MANAGEMENT"
        /\ fleet[k].node_id = node_id
        /\ get_output(fleet[k], "COMPRESSOR_RUNNING", FALSE)

\* C30: in each physics step the pressure of a compressor node rises by 3
\* bar (capped at 80) exactly when the Compressor Management controller
\* bound to the node has its COMPRESSOR_RUNNING output true, and otherwise
\* decays by 1 bar (floored at 30).
C30_CompressorFollowsController ==
    [][ (sim.loops[1].pc = "simulate_step" /\ ret'.call = "simulate_step") =>
          \A k \in DOMAIN network.nodes :
              network.nodes[k].type = "compressor" =>
                  network'.nodes[k].pressure =
                      IF CompressorRunningAt(plcs, network.nodes[k].id)
                      THEN Min(80, network.nodes[k].pressure + 3)
                      ELSE Max(30, network.nodes[k].pressure - 1) ]_vars

\* the statements of iteration step_count, in the order the claim gives
TickOrder(step_count) ==
    <<"update_all_sensors", "simulate_step", "execute_all_plcs", "update",
      "store_simulation_data">>
    \o (IF step_count % 10 = 0 THEN <<"emit">> ELSE <<>>)

\* C24: the statements of an iteration that have returned are, in order,
\* sensor update, physics step, fleet scan pass, aggregator update and
\* persistence (then the broadcast, on every tenth iteration), the statement
\* the thread is at being the next of that order; and the physics step and
\* the fleet scan pass were given the sensor_data that this iteration's
\* sensor update returned.
C24_TickOrder ==
    LET th == sim.loops[1]
        order == TickOrder(th.step_count)
    IN th.step_count > 0 =>
        /\ Len(th.done) <= Len(order)
        /\ \A k \in DOMAIN th.done :
              /\ th.done[k].statement = order[k]
              /\ th.done[k].given = th.done[1].given
        /\ th.done # <<>> => th.done[1].given.vals = [id \in DOMAIN sensors |-> sensors[id].value]
        /\ IF Len(th.done) < Len(order)
           THEN th.pc \in {order[Len(th.done) + 1]} \cup
                          (IF th.done = <<>> THEN {"update_all_sensors"} ELSE {})
           ELSE th.pc \in {"sleep", "update_all_sensors"}

\* the tenth iteration has run all six statements and is in its sleep
C24_Witness ==
    /\ sim.loops[1].pc = "sleep"
    /\ sim.loops[1].step_count = 10
    /\ Len(sim.loops[1].done) = 6
    /\ sim.loops[1].done[6].statement = "emit"
    /\ tick.updated /\ tick.step_count = 10

\* the zone the cascade of the claim gives for the (well-typed) inputs the
\* controller holds
SafetyCascade(plc) ==
    LET pressure == get_input(plc, "PRESSURE_SENSOR", 50)
    IN IF get_input(plc, "EMERGENCY_STOP", FALSE) \/ get_input(plc, "FIRE_DETECTOR", FALSE)
       THEN "EMERGENCY"
       ELSE IF get_input(plc, "GAS_LEAK_DETECTOR", FALSE) \/ pressure > 85 THEN "ALARM"
       ELSE IF pressure > 75 \/ pressure < 10 THEN "WARNING"
       ELSE "NORMAL"

\* the pressure the scan read is a number, or a detector decided the zone
\* before the pressure was looked at
SafetyCascadeDefined(plc) ==
    \/ ~input_bad(plc, "PRESSURE_SENSOR")
    \/ get_input(plc, "EMERGENCY_STOP", FALSE)
    \/ get_input(plc, "FIRE_DETECTOR", FALSE)
    \/ get_input(plc, "GAS_LEAK_DETECTOR", FALSE)

SafetyZoneClaim(old, new) ==
    LET zone == get_output(new, "SAFETY_ZONE", "NORMAL")
        raised == NewAlarmIds(old, new)
    IN /\ SafetyCascadeDefined(new) => zone = SafetyCascade(new)
       /\ zone = "EMERGENCY" =>
              get_input(new, "EMERGENCY_STOP", FALSE) \/ get_input(new, "FIRE_DETECTOR", FALSE)
       /\ get_output(new, "SAFETY_OK", TRUE) <=> zone \in {"NORMAL", "WARNING"}
       /\ "EMERGENCY" \in raised <=> zone = "EMERGENCY"
       /\ "ALARM_CONDITION" \in raised <=> zone = "ALARM"
       /\ \A k \in (Len(old.alarms) + 1)..Len(new.alarms) :
              /\ new.alarms[k].alarm_id = "EMERGENCY" => new.alarms[k].severity = "CRITICAL"
              /\ new.alarms[k].alarm_id = "ALARM_CONDITION" => new.alarms[k].severity = "HIGH"

\* C31: after every scan of the Safety Monitoring controller SAFETY_ZONE is
\* the zone the cascade gives for that scan's inputs (EMERGENCY only with
\* emergency stop or fire read in that scan), SAFETY_OK is true exactly when
\* the zone is NORMAL or WARNING, and the scan has raised an EMERGENCY alarm
\* (CRITICAL) exactly when the zone is EMERGENCY and an ALARM_CONDITION alarm
\* (HIGH) exactly when it is ALARM.
C31_ZoneFollowsInputs ==
    [][ (ret'.call = "execute_scan" /\ ret'.ran)
        => SafetyZoneClaim(plcs[1], plcs'[1]) ]_vars

\* the same for the scans that completed
C31_CompletedScans ==
    [][ (ret'.call = "execute_scan" /\ ScanCompleted(ret'))
        => SafetyZoneClaim(plcs[1], plcs'[1]) ]_vars

\* C32: a call update_timer(name, preset) leaves the timer started, and
\* returns true exactly when at least the preset passed to that call has
\* elapsed since the timer was started or last reset; a call of reset_timer
\* on a started timer leaves its elapsed time zero and done false.
C32_TimerUsesPassedPreset ==
    [][ /\ (ret'.call = "update_timer" /\ ret'.timer_name = TimerNames[1])
           => /\ hist'.started
              /\ TimerNames[1] \in DOMAIN plcs'[1].timers
              /\ ret'.done <=> (ret'.at - hist'.last_start >= ret'.preset_time)
        /\ (ret'.call = "reset_timer" /\ ret'.timer_name = TimerNames[1]
            /\ TimerNames[1] \in DOMAIN plcs[1].timers)
           => /\ plcs'[1].timers[TimerNames[1]].start_time = ret'.at
              /\ ~plcs'[1].timers[TimerNames[1]].done ]_vars

\* the same with the preset the timer was started with
C32_TimerUsesFirstPreset ==
    [][ /\ (ret'.call = "update_timer" /\ ret'.timer_name = TimerNames[1])
           => /\ hist'.started
              /\ TimerNames[1] \in DOMAIN plcs'[1].timers
              /\ ret'.done <=> (ret'.at - hist'.last_start
                                   >= plcs'[1].timers[TimerNames[1]].preset)
              /\ plcs'[1].timers[TimerNames[1]].preset =
                     IF TimerNames[1] \in DOMAIN plcs[1].timers
                     THEN plcs[1].timers[TimerNames[1]].preset
                     ELSE ret'.preset_time
        /\ (ret'.call = "reset_timer" /\ ret'.timer_name = TimerNames[1]
            /\ TimerNames[1] \in DOMAIN plcs[1].timers)
           => /\ plcs'[1].timers[TimerNames[1]].start_time = ret'.at
              /\ ~plcs'[1].timers[TimerNames[1]].done ]_vars

\* the value the counter held before the call (0 if it did not exist)
CounterBefore(plc, counter_name) ==
    IF counter_name \in DOMAIN plc.counters THEN plc.counters[counter_name] ELSE 0

\* C33: a call increment_counter(name, max) returns a value that is neither
\* below the value the counter held before the call nor above max, whatever
\* max arguments earlier calls were given; reset_counter makes it 0.
C33_CounterMonotoneSaturating ==
    [][ /\ ret'.call = "increment_counter"
           => /\ ret'.count >= CounterBefore(plcs[1], ret'.counter_name)
              /\ ret'.count <= ret'.max_count
              /\ plcs'[1].counters[ret'.counter_name] = ret'.count
        /\ ret'.call = "reset_counter"
           => plcs'[1].counters[ret'.counter_name] = 0 ]_vars

\* the same without monotonicity: the value returned is the smaller of the
\* old value plus one and max
C33_CounterSaturating ==
    [][ /\ ret'.call = "increment_counter"
           => /\ ret'.count = Min(CounterBefore(plcs[1], ret'.counter_name) + 1,
                                  ret'.max_count)
              /\ plcs'[1].counters[ret'.counter_name] = ret'.count
        /\ ret'.call = "reset_counter"
           => plcs'[1].counters[ret'.counter_name] = 0 ]_vars

\* the travel watchdog of plc has tripped and no scan has reset the travel
\* timer since: the timer is done, or the scan that just completed demanded
\* motion and left the valve stopped
WatchdogTripped(plc, r) ==
    \/ "TRAVEL_TIMER" \in DOMAIN plc.timers /\ plc.timers["TRAVEL_TIMER"].done
    \/ /\ r.call = "execute_scan" /\ ScanCompleted(r)
       /\ MotionDemanded(plc) /\ ValveStopped(plc)

\* C34: once the travel watchdog has tripped, every later completed scan
\* that demands motion appends another VALVE_TRAVEL_TIME alarm and leaves the
\* motion outputs false, no call leaves the valve driven, and the start of
\* the travel timer is moved only by a completed scan that demands no motion.
C34_WatchdogStaysTripped ==
    [][ /\ WatchdogTripped(plcs[1], ret)
           => /\ ValveStopped(plcs'[1])
              /\ (ScanCompleted(ret') /\ MotionDemanded(plcs'[1]))
                 => /\ plcs'[1].alarms =
                         Append(plcs[1].alarms, PLCAlarm("VALVE_TRAVEL_TIME", "MEDIUM"))
                    /\ plcs'[1].timers["TRAVEL_TIMER"].done
        /\ ("TRAVEL_TIMER" \in DOMAIN plcs[1].timers
            /\ plcs'[1].timers["TRAVEL_TIMER"].start_time
                  # plcs[1].timers["TRAVEL_TIMER"].start_time)
           => /\ ScanCompleted(ret') /\ ~MotionDemanded(plcs'[1])
              /\ plcs'[1].timers["TRAVEL_TIMER"].start_time = ret'.at
              /\ ~plcs'[1].timers["TRAVEL_TIMER"].done ]_vars

\* the watchdog has tripped in two scans with the command still present
C34_Witness ==
    /\ ScanCompleted(ret) /\ MotionDemanded(plcs[1]) /\ ValveStopped(plcs[1])
    /\ get_input(plcs[1], "OPEN_COMMAND", FALSE)
    /\ Cardinality({k \in DOMAIN plcs[1].alarms :
                       plcs[1].alarms[k].alarm_id = "VALVE_TRAVEL_TIME"}) >= 2
    /\ plcs[1].timers["TRAVEL_TIMER"].done

\* C38: after every completed scan of the Valve Control controller
\* VALVE_OPEN and VALVE_CLOSE are not both true, and VALVE_MOVING is true
\* exactly when one of them is.
C38_MotionOutputsConsistent ==
    (ret.call = "execute_scan" /\ ScanCompleted(ret))
    => /\ ~(get_output(plcs[1], "VALVE_OPEN", FALSE)
            /\ get_output(plcs[1], "VALVE_CLOSE", FALSE))
       /\ get_output(plcs[1], "VALVE_MOVING", FALSE)
          <=> (get_output(plcs[1], "VALVE_OPEN", FALSE)
               \/ get_output(plcs[1], "VALVE_CLOSE", FALSE))

\* a completed scan drives the valve closed while the travel timer started
\* by an earlier scan is running
C38_Witness ==
    /\ ret.call = "execute_scan" /\ ScanCompleted(ret)
    /\ get_output(plcs[1], "VALVE_CLOSE", FALSE)
    /\ get_output(plcs[1], "VALVE_MOVING", FALSE)
    /\ ~get_output(plcs[1], "VALVE_OPEN", TRUE)
    /\ "TRAVEL_TIMER" \in DOMAIN plcs[1].timers
    /\ plcs[1].timers["TRAVEL_TIMER"].start_time < ret.at

LimitsRespected(plc) ==
    /\ get_input(plc, "FULLY_OPEN_LS", FALSE) => ~get_output(plc, "VALVE_OPEN", FALSE)
    /\ get_input(plc, "FULLY_CLOSED_LS", FALSE) => ~get_output(plc, "VALVE_CLOSE", FALSE)

\* C39: after any scan of the Valve Control controller in which the
\* fully-open limit switch is active VALVE_OPEN is false, and after any scan
\* in which the fully-closed limit switch is active VALVE_CLOSE is false
\* (stated for the scans that complete).
C39_NeverPastLimitSwitch ==
    (ret.call = "execute_scan" /\ ScanCompleted(ret)) => LimitsRespected(plcs[1])

\* the same for the scans in which the position is inside the tolerance band
C39_InTolerance ==
    (ret.call = "execute_scan" /\ ScanCompleted(ret)
     /\ VALVE_position_in_tolerance(plcs[1]))
    => LimitsRespected(plcs[1])

ShutdownAlarms(plc) ==
    {k \in DOMAIN plc.alarms : plc.alarms[k].alarm_id = "EMERGENCY_SHUTDOWN"}

\* C37: the alarm log of the Emergency Shutdown controller holds at most one
\* EMERGENCY_SHUTDOWN alarm, which is CRITICAL, and holds none before the
\* shutdown is latched.
C37_OneShutdownAlarm ==
    /\ Cardinality(ShutdownAlarms(plcs[1])) <= 1
    /\ \A k \in ShutdownAlarms(plcs[1]) : plcs[1].alarms[k].severity = "CRITICAL"
    /\ ShutdownAlarms(plcs[1]) # {} => plcs[1].esd_active

\* a scan has just completed with a trigger true, the shutdown having been
\* latched by an earlier scan (a faulted scan lies between the two)
C37_Witness ==
    /\ ret.call = "execute_scan" /\ ScanCompleted(ret)
    /\ ESD_should_shutdown(plcs[1])
    /\ Len(plcs[1].alarms) = 2
    /\ plcs[1].alarms[1].alarm_id = "EMERGENCY_SHUTDOWN"
    /\ plcs[1].alarms[2].alarm_id = "SCAN_ERROR"

\* the order of the status levels
StatusRank(status) ==
    CASE status = "NORMAL" -> 0
      [] status = "WARNING" -> 1
      [] status = "ALARM" -> 2
      [] status = "CRITICAL" -> 3

\* C35: in a run of the simulation loop, in which no alarm is acknowledged
\* or cleared, the status an aggregator update reports is never lower than
\* the status the update before it reported.
C35_StatusNeverDecreases ==
    [][ /\ StatusRank(scada'.system_status) >= StatusRank(scada.system_status)
        /\ (tick'.updated /\ tick'.step_count > tick.step_count)
           => tick'.scada_data.system_status = scada'.system_status ]_vars

\* the fourth update reports CRITICAL while the controller that raised the
\* CRITICAL alarm no longer reads its fire detector as true, its log having
\* grown since
C35_Witness ==
    /\ tick.step_count = 4 /\ tick.updated
    /\ tick.scada_data.system_status = "CRITICAL"
    /\ \E k \in DOMAIN plcs :
          /\ plcs[k].plc_type = "SAFETY_MONITORING"
          /\ ~get_input(plcs[k], "FIRE_DETECTOR", FALSE)
          /\ Len(plcs[k].alarms) >= 2
          /\ plcs[k].alarms[1].severity = "CRITICAL"
          /\ plcs[k].alarms[Len(plcs[k].alarms)].severity = "HIGH"

\* the controller of the fleet whose hooks raise under SpecStatus
FaultyIndex(fleet) ==
    CHOOSE k \in DOMAIN fleet : fleet[k].plc_id = PlcId("SAFETY_MONITORING", "Junction_4")

\* the pass that led to fleet new at clock value t attempted a scan of its
\* controller k in which the hooks raised
AttemptRaised(old, new, k, t) ==
    /\ t - old[k].last_scan >= old[k].scan_time
    /\ input_bad(new[k], "PRESSURE_SENSOR")
    /\ ~get_input(new[k], "GAS_LEAK_DETECTOR", FALSE)
    /\ ~get_input(new[k], "FIRE_DETECTOR", FALSE)
    /\ ~get_input(new[k], "EMERGENCY_STOP", FALSE)

\* the fleet tick that led to tk was the third, and the hooks of controller
\* k have raised in each of the three and in no other pass
ThreeFaultedTicks(fleet, tk, k) ==
    /\ tk.step_count = 3 /\ tk.updated
    /\ fleet[k].last_scan = 0
    /\ Len(fleet[k].alarms) = 3
    /\ \A i \in DOMAIN fleet[k].alarms : fleet[k].alarms[i].alarm_id = "SCAN_ERROR"

FaultedScansRetry ==
    LET k == FaultyIndex(plcs)
    IN /\ "SCAN_ERROR" \in NewAlarmIds(plcs[k], plcs'[k])
          => plcs'[k].last_scan = plcs[k].last_scan
       /\ (plcs' # plcs /\ AttemptRaised(plcs, plcs', k, now'))
          => /\ plcs'[k].alarms = Append(plcs[k].alarms, PLCAlarm("SCAN_ERROR", "HIGH"))
             /\ plcs'[k].last_scan = plcs[k].last_scan

\* C36: a scan in which the hooks raise leaves last_scan as it was and
\* appends one HIGH SCAN_ERROR alarm, at every pass over the fleet, also
\* within the scan period of the pass before; and when the hooks of a
\* controller have raised in three consecutive fleet ticks, the status the
\* aggregator reports at the third is ALARM or CRITICAL.
C36_FaultedControllerEscalates ==
    [][ /\ FaultedScansRetry
        /\ ThreeFaultedTicks(plcs', tick', FaultyIndex(plcs))
           => StatusRank(tick'.scada_data.system_status) >= StatusRank("ALARM") ]_vars

\* the same with the status reported one update later
C36_EscalatesOneUpdateLater ==
    [][ /\ FaultedScansRetry
        /\ (ThreeFaultedTicks(plcs, tick, FaultyIndex(plcs))
            /\ tick'.step_count > tick.step_count)
           => StatusRank(tick'.scada_data.system_status) >= StatusRank("ALARM") ]_vars

\* C40: after every completed scan of the Pressure Control controller
\* PRESSURE_RELIEF_VALVE and EMERGENCY_VENT are true exactly when the
\* pressure read in that scan exceeds the high limit, BOOSTER_PUMP is true
\* exactly when it is below the low limit, and the relief valve and the
\* booster pump are not both true.
C40_ReliefFollowsPressure ==
    (ret.call = "execute_scan" /\ ScanCompleted(ret))
    => LET pressure == get_input(plcs[1], "PRESSURE_SENSOR", 50)
       IN /\ get_output(plcs[1], "PRESSURE_RELIEF_VALVE", FALSE)
             <=> pressure > plcs[1].pressure_high_limit
          /\ get_output(plcs[1], "EMERGENCY_VENT", FALSE)
             <=> pressure > plcs[1].pressure_high_limit
          /\ get_output(plcs[1], "BOOSTER_PUMP", FALSE)
             <=> pressure < plcs[1].pressure_low_limit
          /\ ~(get_output(plcs[1], "PRESSURE_RELIEF_VALVE", FALSE)
               /\ get_output(plcs[1], "BOOSTER_PUMP", FALSE))

\* what the code does: an output is switched on by its limit and switched
\* off only by a pressure within both limits
C40_ReliefLatchesUntilInBand ==
    [][ (ret'.call = "execute_scan" /\ ScanCompleted(ret'))
        => LET pressure == get_input(plcs'[1], "PRESSURE_SENSOR", 50)
               high == pressure > plcs[1].pressure_high_limit
               low == pressure < plcs[1].pressure_low_limit
               was(address) == get_output(plcs[1], address, FALSE)
               is(address) == get_output(plcs'[1], address, FALSE)
           IN /\ is("PRESSURE_RELIEF_VALVE") <=> (high \/ (low /\ was("PRESSURE_RELIEF_VALVE")))
              /\ is("EMERGENCY_VENT") <=> (high \/ (low /\ was("EMERGENCY_VENT")))
              /\ is("BOOSTER_PUMP") <=> (low \/ (high /\ was("BOOSTER_PUMP"))) ]_vars
====
